---- MODULE Spec2Model ----
(***************************************************************************)
(* Model of the FreeType/HarfBuzz/ICU text engine (FTTextEngineImpl in     *)
(* src/src/RaylibSDFTextEx.cpp): font registry, glyph cache with LRU       *)
(* eviction, shelf atlas packer, paragraph layout, cursor and hit testing. *)
(*                                                                         *)
(* Lengths are integers.  Advances, wrap widths and indents are multiples  *)
(* of four so that the halvings the code performs (centre alignment, the   *)
(* midpoint of an element) stay exact.                                     *)
(***************************************************************************)
EXTENDS Integers, Sequences, FiniteSets, TLC

\* ------------------------------------------------------------------------
\* Bounds of the model
\* ------------------------------------------------------------------------
MaxFontId == 2          \* LoadFont is enabled while nextFontId_ <= MaxFontId
MaxGlyphIndex == 2      \* glyph indices requested are 0..MaxGlyphIndex
MaxAtlasPages == 1      \* a new atlas page is allocated only below this count
MaxCapacityArg == 2     \* maxGlyphsEstimate arguments are 0..MaxCapacityArg
MaxCacheEntries == 2    \* get-or-create is explored while the cache holds at most this many
MaxTextLen == 3         \* texts laid out have at most this many characters
MaxBidiTextLen == 4     \* texts of mixed direction have at most this many characters
MaxHitX == 44           \* clicks are made at x from -1 to MaxHitX

\* ------------------------------------------------------------------------
\* Program constants
\* ------------------------------------------------------------------------
INVALID_FONT_ID == -1
FirstFontId == 1
DefaultCacheCapacity == 512
DefaultAtlasDim == 1024
FallbackAtlasDim == 256
DefaultSdfPixelSize == 64

\* ------------------------------------------------------------------------
\* Font files.  A font file is one of two faces; FT_Get_Char_Index, the
\* bitmap a glyph rasterizes to and its advance are functions of the face.
\* ------------------------------------------------------------------------
Faces == {"latin", "cjk"}
Codepoints == {"a", "zh", "sp", "nul"}

isWhitespaceCp(cp) == cp = "sp"

FT_Get_Char_Index(face, cp) ==
    IF face = "latin"
    THEN (IF cp = "a" THEN 1 ELSE IF cp = "sp" THEN 2 ELSE 0)
    ELSE (IF cp = "zh" THEN 1 ELSE 0)

\* <<width, rows>> of the bitmap FT_Render_Glyph leaves in the glyph slot:
\* .notdef is half a default page wide and a page high, 'a' a page wide and
\* half a page high, the space empty, the CJK glyph wider than any page
SlotBitmap(face, gid) ==
    IF gid = 0 THEN <<512, 1024>>
    ELSE IF face = "latin"
    THEN (IF gid = 1 THEN <<1024, 512>> ELSE <<0, 0>>)
    ELSE <<2048, 1024>>

SlotAdvance(face, gid) ==
    IF face = "latin"
    THEN (IF gid = 0 THEN 8 ELSE 4)
    ELSE (IF gid = 0 THEN 8 ELSE 12)

VARIABLES
    loadedFonts_,                   \* FontId -> face of the loaded font
    nextFontId_,
    defaultFontId_,
    fontFallbackChains_,            \* FontId -> sequence of FontId
    lru_glyph_list_,                \* sequence of keys, front = most recent
    glyph_cache_map_,               \* key -> cached glyph
    glyph_cache_capacity_,
    atlas_textures_,                \* the atlas pages: <<width, height>> of each image + texture
    current_atlas_idx_,
    current_atlas_pen_pos_,         \* [x, y]
    current_atlas_max_row_height_,
    atlas_width_,
    atlas_height_,
    atlas_type_hint_,               \* "SDF_BITMAP" or "ALPHA_ONLY_BITMAP"
    ret,                            \* what the last operation did and returned
    recency,                        \* history: cached keys by last access
    textBlock,                      \* the TextBlock LayoutStyledText returned
    cursorInfo,                     \* the last GetCursorInfoFromByteOffset call
    hitResult,                      \* the last GetByteOffsetFromVisualPosition call
    loadFontReturns                 \* history: the ids LoadFont returned, in order

cacheVars == <<lru_glyph_list_, glyph_cache_map_, atlas_textures_,
               current_atlas_idx_, current_atlas_pen_pos_,
               current_atlas_max_row_height_>>
optionVars == <<glyph_cache_capacity_, atlas_width_, atlas_height_,
                atlas_type_hint_>>
fontVars == <<loadedFonts_, nextFontId_, defaultFontId_, fontFallbackChains_,
              loadFontReturns>>
layoutVars == <<textBlock, cursorInfo, hitResult>>

\* ------------------------------------------------------------------------
\* Small helpers on sequences and functions
\* ------------------------------------------------------------------------
Range(s) == {s[i] : i \in DOMAIN s}

Front(s) == SubSeq(s, 1, Len(s) - 1)

Last(s) == s[Len(s)]

Without(s, x) == SelectSeq(s, LAMBDA y : y /= x)

MapPut(m, k, v) == [x \in (DOMAIN m) \cup {k} |-> IF x = k THEN v ELSE m[x]]

MapErase(m, k) == [x \in (DOMAIN m) \ {k} |-> m[x]]

Max(a, b) == IF a >= b THEN a ELSE b

Min(a, b) == IF a <= b THEN a ELSE b

MinOf(S) == CHOOSE x \in S : \A y \in S : x <= y

\* ------------------------------------------------------------------------
\* The mutable cache and atlas state as one value, so that an operation
\* that performs several get-or-create calls can thread it through.
\* ------------------------------------------------------------------------
CacheState ==
    [lru |-> lru_glyph_list_, map |-> glyph_cache_map_,
     pages |-> atlas_textures_, idx |-> current_atlas_idx_,
     pen |-> current_atlas_pen_pos_, rowh |-> current_atlas_max_row_height_,
     recency |-> recency]

SetCacheState(c) ==
    /\ lru_glyph_list_' = c.lru
    /\ glyph_cache_map_' = c.map
    /\ atlas_textures_' = c.pages
    /\ current_atlas_idx_' = c.idx
    /\ current_atlas_pen_pos_' = c.pen
    /\ current_atlas_max_row_height_' = c.rowh
    /\ recency' = c.recency

IsFontValid(fontId) == fontId \in DOMAIN loadedFonts_

NoRect == [x |-> 0, y |-> 0, width |-> 0, height |-> 0]

FTGlyphCacheKey(fontId, glyphIndex) ==
    [fontId |-> fontId, glyphIndex |-> glyphIndex,
     sdfPixelSize |-> DefaultSdfPixelSize,
     isSDF |-> (atlas_type_hint_ = "SDF_BITMAP")]

\* the value a failed call returns: a default-constructed FTCachedGlyph
EmptyCachedGlyph ==
    [atlasTexture |-> 0, atlasRect |-> NoRect, isSDF |-> FALSE,
     advanceX_at_cached_size |-> 0]

\* ------------------------------------------------------------------------
\* findSpaceInAtlasAndPack: shelf packing.  allocOk says whether creating a
\* new atlas image and texture succeeds.  Returns the new state and the
\* rectangle (NoRect when nothing was placed).
\* ------------------------------------------------------------------------
\* the image of a new page has the dimensions in force when it is created
GenImageColor == <<atlas_width_, atlas_height_>>

PackAfterRowStep(c, width, height) ==
    \* the pen after the "fits in current row / else try next row" step
    IF c.idx /= -1
    THEN IF c.pen.x + width <= atlas_width_ /\ c.pen.y + height <= atlas_height_
         THEN c
         ELSE [c EXCEPT !.pen = [x |-> 0, y |-> c.pen.y + c.rowh], !.rowh = 0]
    ELSE c

PackedInCurrentAtlas(c, width, height) ==
    /\ c.idx /= -1
    /\ c.pen.y + height <= atlas_height_
    /\ c.pen.x + width <= atlas_width_

\* a final check that forgets the size of the page
PackIgnoresPageSize(c, width, height) ==
    \/ c.idx < 0
    \/ c.idx >= Len(c.pages)

PackCannotPlace(c, width, height) ==
    \/ c.idx < 0
    \/ c.idx >= Len(c.pages)
    \/ width > atlas_width_
    \/ height > atlas_height_
    \/ c.pen.y + height > atlas_height_
    \/ c.pen.x + width > atlas_width_

PackPlace(c, width, height) ==
    LET spot == [x |-> c.pen.x, y |-> c.pen.y, width |-> width, height |-> height]
    IN  [c |-> [c EXCEPT !.pen = [x |-> c.pen.x + width, y |-> c.pen.y],
                         !.rowh = Max(c.rowh, height)],
         rect |-> spot]

\* the final check, then the placement
PackFinal(c, width, height) ==
    IF PackCannotPlace(c, width, height)
    THEN [c |-> c, rect |-> NoRect]
    ELSE PackPlace(c, width, height)

\* the index and the pen have moved to the next atlas: create its image
\* and texture when it does not exist yet
PackInNextAtlas(c, width, height, allocOk) ==
    IF c.idx >= Len(c.pages)
    THEN IF allocOk
         THEN PackFinal([c EXCEPT !.pages = Append(c.pages, GenImageColor)],
                        width, height)
         ELSE [c |-> [c EXCEPT !.idx = c.idx - 1], rect |-> NoRect]
    ELSE PackFinal(c, width, height)

\* after the row step: stay in the current atlas or go to the next one
PackInAtlas(c, width, height, allocOk) ==
    IF PackedInCurrentAtlas(c, width, height)
    THEN PackFinal(c, width, height)
    ELSE PackInNextAtlas([c EXCEPT !.idx = c.idx + 1,
                                   !.pen = [x |-> 0, y |-> 0], !.rowh = 0],
                         width, height, allocOk)

findSpaceInAtlasAndPack(c, width, height, allocOk) ==
    IF width <= 0 \/ height <= 0
    THEN [c |-> c, rect |-> NoRect]
    ELSE PackInAtlas(PackAfterRowStep(c, width, height), width, height, allocOk)

\* ------------------------------------------------------------------------
\* The cache bookkeeping shared by the get-or-create functions
\* ------------------------------------------------------------------------
Touch(rec, key, mapAfter) ==
    \* history: key becomes the most recently accessed of the cached keys
    SelectSeq(<<key>> \o Without(rec, key), LAMBDA k : k \in DOMAIN mapAfter)

\* cache hit: splice the key to the front of the LRU list
CacheHit(c, key) ==
    [c EXCEPT !.lru = <<key>> \o Without(c.lru, key),
              !.recency = Touch(c.recency, key, c.map)]

EvictFrontIfFull(c) ==
    IF Cardinality(DOMAIN c.map) >= glyph_cache_capacity_ /\ c.lru /= <<>>
    THEN [c EXCEPT !.map = MapErase(c.map, Head(c.lru)), !.lru = Tail(c.lru)]
    ELSE c

\* an eviction that gives the pen back to the start of the page
EvictAndRewindPen(c) ==
    IF Cardinality(DOMAIN c.map) >= glyph_cache_capacity_ /\ c.lru /= <<>>
    THEN [c EXCEPT !.map = MapErase(c.map, Last(c.lru)), !.lru = Front(c.lru),
                   !.pen = [x |-> 0, y |-> 0], !.rowh = 0]
    ELSE c

\* "Cache management": evict the back of the list when full
EvictIfFull(c) ==
    IF Cardinality(DOMAIN c.map) >= glyph_cache_capacity_ /\ c.lru /= <<>>
    THEN [c EXCEPT !.map = MapErase(c.map, Last(c.lru)), !.lru = Front(c.lru)]
    ELSE c

\* an insertion that keeps only the glyphs that have a place in the atlas
CacheInsertPlacedOnly(c, key, glyph) ==
    IF glyph.atlasTexture = 0 THEN c
    ELSE LET c1 == EvictIfFull(c)
             m == MapPut(c1.map, key, glyph)
         IN  [c1 EXCEPT !.lru = <<key>> \o c1.lru, !.map = m,
                        !.recency = Touch(c1.recency, key, m)]

\* push_front and insert, after the eviction
InsertEntry(c, key, glyph) ==
    [c EXCEPT !.lru = <<key>> \o c.lru, !.map = MapPut(c.map, key, glyph),
              !.recency = Touch(c.recency, key, MapPut(c.map, key, glyph))]

CacheInsert(c, key, glyph) == InsertEntry(EvictIfFull(c), key, glyph)

\* rasterize into the atlas and build the FTCachedGlyph of a miss
\* the FTCachedGlyph built from pack_rect, the result p of the packer
GlyphOfPackRect(p, key, advance) ==
    [c |-> p.c,
     glyph |-> IF p.rect.width > 0
               THEN [atlasTexture |-> p.c.idx + 1, atlasRect |-> p.rect,
                     isSDF |-> key.isSDF,
                     advanceX_at_cached_size |-> advance]
               ELSE [atlasTexture |-> 0, atlasRect |-> NoRect,
                     isSDF |-> key.isSDF,
                     advanceX_at_cached_size |-> advance]]

RenderNewGlyph(c, key, bitmap, advance, allocOk) ==
    IF bitmap[1] > 0 /\ bitmap[2] > 0
    THEN GlyphOfPackRect(findSpaceInAtlasAndPack(c, bitmap[1], bitmap[2], allocOk),
                         key, advance)
    ELSE [c |-> c,
          glyph |-> [atlasTexture |-> 0, atlasRect |-> NoRect,
                     isSDF |-> key.isSDF, advanceX_at_cached_size |-> advance]]

NoKey == [fontId |-> INVALID_FONT_ID, glyphIndex |-> 0,
          sdfPixelSize |-> 0, isSDF |-> FALSE]

\* result of a get-or-create call
GetResult(c, glyph, actual, key, hit, inserted) ==
    [c |-> c, glyph |-> glyph, actualFontIdUsed |-> actual, key |-> key,
     hit |-> hit, miss |-> (key /= NoKey /\ ~hit), inserted |-> inserted]

\* a miss: the rendered glyph r is inserted and returned
InsertRendered(r, actual, key) ==
    GetResult(CacheInsert(r.c, key, r.glyph), r.glyph, actual, key, FALSE, TRUE)

\* ------------------------------------------------------------------------
\* getCachedGlyphByGID.  ftOk: FT_Load_Glyph/FT_Render_Glyph succeeded; the
\* function does not check, and after a failure the glyph slot, which
\* FT_Load_Glyph clears first, holds an empty bitmap and no advance.
\* ------------------------------------------------------------------------
getCachedGlyphByGID(c, fontId, glyphID_from_harfbuzz, ftOk, allocOk) ==
    IF ~IsFontValid(fontId) /\ ~IsFontValid(defaultFontId_)
    THEN GetResult(c, EmptyCachedGlyph, fontId, NoKey, FALSE, FALSE)
    ELSE
      LET actual == IF IsFontValid(fontId) THEN fontId ELSE defaultFontId_
          gid == IF IsFontValid(fontId) THEN glyphID_from_harfbuzz ELSE 0
          key == FTGlyphCacheKey(actual, gid)
      IN  IF key \in DOMAIN c.map
          THEN GetResult(CacheHit(c, key), c.map[key], actual, key, TRUE, FALSE)
          ELSE
            LET face == loadedFonts_[actual]
                bitmap == IF ftOk THEN SlotBitmap(face, gid) ELSE <<0, 0>>
                adv == IF ftOk THEN SlotAdvance(face, gid) ELSE 0
            IN  InsertRendered(RenderNewGlyph(c, key, bitmap, adv, allocOk),
                               actual, key)

\* ------------------------------------------------------------------------
\* getOrCacheGlyph: font selection with fallback, then the same cache path.
\* ------------------------------------------------------------------------
RECURSIVE FirstCovering(_, _, _)
\* first valid font of chain (from position i) that maps cp to a glyph
FirstCovering(chain, i, cp) ==
    IF i > Len(chain) THEN INVALID_FONT_ID
    ELSE IF IsFontValid(chain[i])
            /\ FT_Get_Char_Index(loadedFonts_[chain[i]], cp) /= 0
         THEN chain[i]
         ELSE FirstCovering(chain, i + 1, cp)

ChainOf(fontId) ==
    IF fontId \in DOMAIN fontFallbackChains_ THEN fontFallbackChains_[fontId]
    ELSE <<>>

\* steps 1-4 of getOrCacheGlyph: the font that provides the glyph
SelectFontForCodepoint(requestedFontId, cp) ==
    LET ws == isWhitespaceCp(cp)
        s1 == IF IsFontValid(requestedFontId)
                 /\ (FT_Get_Char_Index(loadedFonts_[requestedFontId], cp) /= 0 \/ ws)
              THEN requestedFontId ELSE INVALID_FONT_ID
        s2 == IF s1 = INVALID_FONT_ID /\ ~ws
              THEN FirstCovering(ChainOf(requestedFontId), 1, cp) ELSE s1
        defaultWasInFallback == defaultFontId_ \in Range(ChainOf(requestedFontId))
        s3 == IF /\ s2 = INVALID_FONT_ID /\ ~ws
                 /\ defaultFontId_ /= INVALID_FONT_ID
                 /\ defaultFontId_ /= requestedFontId
                 /\ ~defaultWasInFallback /\ IsFontValid(defaultFontId_)
                 /\ FT_Get_Char_Index(loadedFonts_[defaultFontId_], cp) /= 0
              THEN defaultFontId_ ELSE s2
        fontForNotdef == IF IsFontValid(requestedFontId) THEN requestedFontId
                         ELSE IF IsFontValid(defaultFontId_) THEN defaultFontId_
                         ELSE INVALID_FONT_ID
    IN  IF s3 /= INVALID_FONT_ID THEN s3 ELSE fontForNotdef

RECURSIVE getOrCacheGlyph(_, _, _, _, _)
\* the cache path for the font actual that steps 1-4 selected.  errs: the
\* FreeType outcome of this call and of the .notdef retry ("none", "size",
\* "load" or "render")
GetGlyphOfFont(c, actual, cp, errs, allocOk) ==
    IF actual = INVALID_FONT_ID
    THEN GetResult(c, EmptyCachedGlyph, INVALID_FONT_ID, NoKey, FALSE, FALSE)
    ELSE
      LET face == loadedFonts_[actual]
          gid == FT_Get_Char_Index(face, cp)
          key == FTGlyphCacheKey(actual, gid)
          err == Head(errs)
      IN  IF key \in DOMAIN c.map
          THEN GetResult(CacheHit(c, key), c.map[key], actual, key, TRUE, FALSE)
          ELSE IF err = "size" \/ err = "render"
          THEN GetResult(c, EmptyCachedGlyph, actual, key, FALSE, FALSE)
          ELSE IF err = "load"
          THEN IF gid /= 0 /\ Len(errs) > 1
               THEN getOrCacheGlyph(c, actual, "nul", Tail(errs), allocOk)
               ELSE GetResult(c, EmptyCachedGlyph, actual, key, FALSE, FALSE)
          ELSE InsertRendered(RenderNewGlyph(c, key, SlotBitmap(face, gid),
                                             SlotAdvance(face, gid), allocOk),
                              actual, key)

getOrCacheGlyph(c, requestedFontId, cp, errs, allocOk) ==
    GetGlyphOfFont(c, SelectFontForCodepoint(requestedFontId, cp), cp, errs,
                   allocOk)

performCacheCleanup(c) ==
    [c EXCEPT !.pages = <<>>, !.map = <<>>, !.lru = <<>>, !.idx = -1,
              !.pen = [x |-> 0, y |-> 0], !.rowh = 0,
              !.recency = <<>>]

\* ------------------------------------------------------------------------
\* Text.  A text is a sequence of characters of the Basic Multilingual
\* Plane, so each character is one UTF-16 code unit and a UTF-16 index is
\* a count of characters; its UTF-8 form has one, two or three bytes per
\* character.
\*   "a"  U+0061   "sp" U+0020   "nl" U+000A   (one byte)
\*   "ar" U+0628 Arabic letter beh, right-to-left   (two bytes)
\*   "zh" U+4E2D   "zw" U+200B zero width space   (three bytes)
\* ------------------------------------------------------------------------
TextChars == {"a", "sp", "nl", "zh", "zw", "ar", "obj"}

\* bytes GetNextCodepointFromUTF8 consumes for the character
Utf8Bytes(ch) == IF ch \in {"zh", "zw", "obj"} THEN 3 ELSE IF ch = "ar" THEN 2 ELSE 1

RECURSIVE Utf16ToUtf8Len(_)
\* Utf16ToUtf8(u16).length()
Utf16ToUtf8Len(u16) ==
    IF u16 = <<>> THEN 0 ELSE Utf8Bytes(Head(u16)) + Utf16ToUtf8Len(Tail(u16))

\* Utf8ToUtf16(text.substr(from, n)).length(): the characters whose first
\* byte lies in [from, from + n) of the UTF-8 form of u16
Utf8ToUtf16Len(u16, from, n) ==
    Cardinality({i \in 1..Len(u16) :
                    LET b == Utf16ToUtf8Len(SubSeq(u16, 1, i - 1))
                    IN  from <= b /\ b < from + n})

\* the UTF-16 index of the character that starts at byte offset off
CharAtByte(u16, off) ==
    CHOOSE i \in 0..Len(u16) : Utf16ToUtf8Len(SubSeq(u16, 1, i)) = off

IsCharBoundary(u16, off) ==
    \E i \in 0..Len(u16) : Utf16ToUtf8Len(SubSeq(u16, 1, i)) = off

\* ------------------------------------------------------------------------
\* ICU break iterator.  Word boundaries (UAX #29): none between two
\* letters and none between two spaces, one everywhere else; character
\* boundaries: one between any two of these characters.
\* ------------------------------------------------------------------------
UBRK_DONE == -1

IsBoundary(u16, strategy, b) ==
    \/ b = 0
    \/ b = Len(u16)
    \/ strategy = "ICU_CHARACTER_BOUNDARIES"
    \/ ~ \/ (u16[b] \in {"a", "ar"} /\ u16[b + 1] \in {"a", "ar"})
         \/ (u16[b] = "sp" /\ u16[b + 1] = "sp")

ubrk_following(u16, strategy, pos) ==
    IF pos >= Len(u16) THEN UBRK_DONE
    ELSE MinOf({b \in (pos + 1)..Len(u16) : IsBoundary(u16, strategy, b)})

\* ------------------------------------------------------------------------
\* ICU BiDi (UAX #9) over these characters: "a" and "zh" are strong
\* left-to-right, "ar" is strong right-to-left, "sp" and "zw" take their
\* direction from their neighbours and "nl" is a paragraph separator.
\* ------------------------------------------------------------------------
MaxOf(S) == CHOOSE x \in S : \A y \in S : x >= y

IsStrong(ch) == ch \in {"a", "zh", "ar"}

StrongDir(ch) == IF ch = "ar" THEN "R" ELSE "L"

\* ubidi_setPara(text, UBIDI_DEFAULT_LTR) then ubidi_getParaLevel: the
\* direction of the first strong character of the first paragraph
ubidi_getParaLevel(u16) ==
    LET firstNl == MinOf({i \in 1..Len(u16) : u16[i] = "nl"} \cup {Len(u16) + 1})
        strong == {i \in 1..(firstNl - 1) : IsStrong(u16[i])}
    IN  IF strong /= {} /\ u16[MinOf(strong)] = "ar" THEN 1 ELSE 0

\* the direction a character resolves to in a paragraph of level paraLevel:
\* its own when strong; between two strong characters of one direction
\* that direction, otherwise the embedding direction (rules N1, N2), the
\* ends of the paragraph counting as the embedding direction
ResolvedDir(u16, paraLevel, i) ==
    LET e == IF paraLevel = 1 THEN "R" ELSE "L"
        stops(S) == {j \in S : IsStrong(u16[j]) \/ u16[j] = "nl"}
        before == stops(1..(i - 1))
        after == stops((i + 1)..Len(u16))
        side(S, j) == IF S = {} \/ u16[j] = "nl" THEN e ELSE StrongDir(u16[j])
        prev == side(before, IF before = {} THEN i ELSE MaxOf(before))
        next == side(after, IF after = {} THEN i ELSE MinOf(after))
    IN  IF IsStrong(u16[i]) THEN StrongDir(u16[i])
        ELSE IF prev = next THEN prev ELSE e

\* ubidi_getLevelAt for every character (rules I1, I2, L1)
ubidi_getLevels(u16, paraLevel) ==
    [i \in 1..Len(u16) |->
        IF u16[i] = "nl" THEN paraLevel
        ELSE IF ResolvedDir(u16, paraLevel, i) = "R" THEN 1
        ELSE IF paraLevel = 1 THEN 2 ELSE 0]

\* rule L2 for one level: every maximal stretch of order whose characters
\* have a level of lowest or more is reversed
ReverseRuns(order, levels, lowest) ==
    LET in(m) == levels[order[m]] >= lowest
        first(i) == MinOf({j \in 1..i : \A m \in j..i : in(m)})
        last(i) == MaxOf({j \in i..Len(order) : \A m \in i..j : in(m)})
    IN  [i \in 1..Len(order) |->
            IF in(i) THEN order[first(i) + last(i) - i] ELSE order[i]]

\* the characters (counted from 1) in visual order, left to right
VisualOrder(levels) ==
    ReverseRuns(ReverseRuns([i \in 1..Len(levels) |-> i], levels, 2), levels, 1)

\* ubidi_getVisualMap: the logical index at each visual index
ubidi_getVisualMap(levels) ==
    [v \in 1..Len(levels) |-> VisualOrder(levels)[v] - 1]

\* ubidi_getLogicalMap: the visual index of each logical index
ubidi_getLogicalMap(levels) ==
    [i \in 1..Len(levels) |->
        (CHOOSE v \in 1..Len(levels) : VisualOrder(levels)[v] = i) - 1]

RECURSIVE VisualRunsOfLevels(_, _, _)
\* ubidi_countRuns and ubidi_getVisualRun: the maximal stretches of one
\* level, in visual order from visual index v (counted from 1) on
VisualRunsOfLevels(levels, order, v) ==
    IF v > Len(order) THEN <<>>
    ELSE
      LET e == MaxOf({j \in v..Len(order) :
                         \A m \in v..j : levels[order[m]] = levels[order[v]]})
          logicalStart == MinOf({order[m] : m \in v..e}) - 1
      IN  <<[logicalStart |-> logicalStart, length |-> e - v + 1,
             direction |-> IF levels[order[v]] % 2 = 1 THEN "RTL" ELSE "LTR"]>>
          \o VisualRunsOfLevels(levels, order, e + 1)

\* the visual runs of a text set as one paragraph of level paraLevel
ubidi_getVisualRuns(u16, paraLevel) ==
    VisualRunsOfLevels(ubidi_getLevels(u16, paraLevel),
                       VisualOrder(ubidi_getLevels(u16, paraLevel)), 1)

Reverse(seq) == [i \in 1..Len(seq) |-> seq[Len(seq) + 1 - i]]

\* ------------------------------------------------------------------------
\* HarfBuzz.  hb_shape of a run with the font of a face: one glyph per
\* character, its cluster the byte offset of the character in the run; the
\* glyphs come in visual order, so those of a right-to-left run are in the
\* reverse of the text order (hb_shape_dir).  U+200B is default-ignorable: it is shown as the face's space
\* glyph with no advance, and removed from the buffer when the face has no
\* space glyph.
\* ------------------------------------------------------------------------
RECURSIVE hb_shape(_, _, _)
hb_shape(face, runU16, i) ==
    IF i > Len(runU16) THEN <<>>
    ELSE
      LET ch == runU16[i]
          cluster == Utf16ToUtf8Len(SubSeq(runU16, 1, i - 1))
          gid == FT_Get_Char_Index(face, ch)
          space == FT_Get_Char_Index(face, "sp")
          info == IF ch = "zw"
                  THEN (IF space /= 0
                        THEN <<[codepoint |-> space, cluster |-> cluster,
                                x_advance |-> 0]>>
                        ELSE <<>>)
                  ELSE <<[codepoint |-> gid, cluster |-> cluster,
                          x_advance |-> SlotAdvance(face, gid)]>>
      IN  info \o hb_shape(face, runU16, i + 1)

hb_shape_dir(face, runU16, direction) ==
    IF direction = "RTL" THEN Reverse(hb_shape(face, runU16, 1))
    ELSE hb_shape(face, runU16, 1)

\* ------------------------------------------------------------------------
\* Paragraph layout data.  Every face has the same vertical metrics at the
\* layout size, so every line box has the same height and baseline.
\* ------------------------------------------------------------------------
LineBoxHeight == 16
RunFontSize == 16
BaselineYInBox == 12

\* ParagraphStyle(): the fields the layout reads
DefaultParagraphStyle ==
    [alignment |-> "LEFT", firstLineIndent |-> 0, wrapWidth |-> 0,
     lineBreakStrategy |-> "SIMPLE_BY_WIDTH",
     defaultCharacterStyle |-> [fontId |-> INVALID_FONT_ID]]

\* TextBlock(): a default-constructed block
EmptyTextBlock ==
    [elements |-> <<>>, lines |-> <<>>,
     paragraphStyleUsed |-> DefaultParagraphStyle,
     sourceTextConcatenated |-> <<>>, sourceSpansCopied |-> <<>>]

\* Utf8ToUtf16(text.substr(from, n)): the characters whose first byte lies
\* in [from, from + n) of the UTF-8 form of u16
Utf8SubstrToUtf16(u16, from, n) ==
    LET first == Utf8ToUtf16Len(u16, 0, from)
    IN  [k \in 1..Utf8ToUtf16Len(u16, from, n) |-> u16[first + k]]

\* the alignment shift of a line that starts at linePhysicalStartX
LineShiftX(pStyle, linePhysicalStartX, lineWidth) ==
    LET visualLineWidthWithIndentActual == linePhysicalStartX + lineWidth
        effectiveWrapWidthForAlign ==
            IF pStyle.wrapWidth > 0 THEN pStyle.wrapWidth
            ELSE visualLineWidthWithIndentActual
    IN  IF visualLineWidthWithIndentActual < effectiveWrapWidthForAlign
        THEN IF pStyle.alignment = "RIGHT"
             THEN effectiveWrapWidthForAlign - visualLineWidthWithIndentActual
             ELSE IF pStyle.alignment = "CENTER"
             THEN (effectiveWrapWidthForAlign - visualLineWidthWithIndentActual) \div 2
             ELSE 0
        ELSE 0

\* the maps of a line: ubidi_setPara on the text of the line with the level
\* of the paragraph, then ubidi_getVisualMap and ubidi_getLogicalMap
LineVisualMap(lineU16_for_map, paragraphBiDiLevelForLineMap) ==
    ubidi_getVisualMap(ubidi_getLevels(lineU16_for_map, paragraphBiDiLevelForLineMap))

LineLogicalMap(lineU16_for_map, paragraphBiDiLevelForLineMap) ==
    ubidi_getLogicalMap(ubidi_getLevels(lineU16_for_map, paragraphBiDiLevelForLineMap))

\* std::holds_alternative<PositionedImage>(el)
IsImage(el) == "penAdvanceX" \in DOMAIN el

\* the font of a run of images: the paragraph's font or the engine default,
\* and for the run that starts the line any loaded font after those
ImageRunFont(pStyle, start) ==
    IF IsFontValid(pStyle.defaultCharacterStyle.fontId)
    THEN pStyle.defaultCharacterStyle.fontId
    ELSE IF start = 0 /\ ~IsFontValid(defaultFontId_) /\ DOMAIN loadedFonts_ /= {}
    THEN MinOf(DOMAIN loadedFonts_)
    ELSE defaultFontId_

\* the VisualRun of n elements that starts at element start of the line
VisualRunRecord(pendingElements, start, n, pStyle) ==
    [firstElementIndexInLineElements |-> start,
     numElementsInRun |-> n,
     direction |-> IF IsImage(pendingElements[start + 1]) THEN "UNSPECIFIED"
                   ELSE pendingElements[start + 1].visualRunDirectionHint,
     runFont |-> IF IsImage(pendingElements[start + 1])
                 THEN ImageRunFont(pStyle, start)
                 ELSE pendingElements[start + 1].sourceFont]

\* every element after the first of a run starts a run of its own
SplitAtEveryElement(pendingElements, start, i) ==
    i > start

\* splitRun: element i (from 0) does not continue the run that starts at
\* element start
SplitRun(pendingElements, start, i) ==
    /\ i > start
    /\ IF IsImage(pendingElements[i + 1]) /= IsImage(pendingElements[i])
       THEN TRUE
       ELSE /\ ~IsImage(pendingElements[i + 1])
            /\ \/ pendingElements[i + 1].visualRunDirectionHint
                      /= pendingElements[start + 1].visualRunDirectionHint
               \/ pendingElements[i + 1].sourceFont
                      /= pendingElements[start + 1].sourceFont

RECURSIVE VisualRunsFrom(_, _, _, _)
\* the runs of a line from element start on, i scanning: a run ends where
\* images and glyphs meet or the direction or the source font of the
\* glyphs changes (size, script and language are the same for every
\* element of these paragraphs)
VisualRunsFrom(pendingElements, start, i, pStyle) ==
    IF i >= Len(pendingElements)
    THEN <<VisualRunRecord(pendingElements, start, Len(pendingElements) - start, pStyle)>>
    ELSE IF SplitRun(pendingElements, start, i)
    THEN <<VisualRunRecord(pendingElements, start, i - start, pStyle)>>
             \o VisualRunsFrom(pendingElements, i, i + 1, pStyle)
    ELSE VisualRunsFrom(pendingElements, start, i + 1, pStyle)

BuildVisualRuns(pendingElements, pStyle) ==
    IF pendingElements = <<>> THEN <<>>
    ELSE VisualRunsFrom(pendingElements, 0, 0, pStyle)

\* ------------------------------------------------------------------------
\* finalizeCurrentLine: append the pending elements and the line record to
\* the block.  Returns the block and the top of the next line box.
\* ------------------------------------------------------------------------
LineRecordCountingFromOne(tb, pendingElements, lineStart, lineWidth, lineBoxY, nextLineU8StartOffsetInFull) ==
    LET text == tb.sourceTextConcatenated
        lineU8Len == nextLineU8StartOffsetInFull - lineStart
        lineU16_for_map == IF lineU8Len > 0
                              /\ nextLineU8StartOffsetInFull <= Utf16ToUtf8Len(text)
                           THEN Utf8SubstrToUtf16(text, lineStart, lineU8Len)
                           ELSE <<>>
    IN  [sourceTextByteStartIndexInBlockText |-> lineStart,
         sourceTextByteEndIndexInBlockText |-> nextLineU8StartOffsetInFull,
         firstElementIndexInBlockElements |-> Len(tb.elements) + 1,
         numElementsInLine |-> Len(pendingElements),
         lineWidth |-> lineWidth,
         lineBoxY |-> lineBoxY,
         lineBoxHeight |-> LineBoxHeight,
         baselineYInBox |-> BaselineYInBox,
         visualRuns |-> BuildVisualRuns(pendingElements, tb.paragraphStyleUsed),
         visualToLogicalMap |-> LineVisualMap(lineU16_for_map, ubidi_getParaLevel(text)),
         logicalToVisualMap |-> LineLogicalMap(lineU16_for_map, ubidi_getParaLevel(text))]

\* the LineLayoutInfo of the line being finalized; tb is the block before
\* the pending elements are appended
LineRecord(tb, pendingElements, lineStart, lineWidth, lineBoxY, nextLineU8StartOffsetInFull) ==
    LET text == tb.sourceTextConcatenated
        lineU8Len == nextLineU8StartOffsetInFull - lineStart
        lineU16_for_map == IF lineU8Len > 0
                              /\ nextLineU8StartOffsetInFull <= Utf16ToUtf8Len(text)
                           THEN Utf8SubstrToUtf16(text, lineStart, lineU8Len)
                           ELSE <<>>
    IN  [sourceTextByteStartIndexInBlockText |-> lineStart,
         sourceTextByteEndIndexInBlockText |-> nextLineU8StartOffsetInFull,
         firstElementIndexInBlockElements |-> Len(tb.elements),
         numElementsInLine |-> Len(pendingElements),
         lineWidth |-> lineWidth,
         lineBoxY |-> lineBoxY,
         lineBoxHeight |-> LineBoxHeight,
         baselineYInBox |-> BaselineYInBox,
         visualRuns |-> BuildVisualRuns(pendingElements, tb.paragraphStyleUsed),
         visualToLogicalMap |-> LineVisualMap(lineU16_for_map, ubidi_getParaLevel(text)),
         logicalToVisualMap |-> LineLogicalMap(lineU16_for_map, ubidi_getParaLevel(text))]

finalizeCurrentLine(tb, pendingElements, lineStart, committedLineWidthNoIndent, currentLineBoxTopY, isFirstLineOfPara, pStyle, nextLineU8StartOffsetInFull) ==
    LET text == tb.sourceTextConcatenated
        skip == /\ pendingElements = <<>>
                /\ ~(tb.lines = <<>> /\ text = <<>> /\ lineStart = 0)
                /\ lineStart >= nextLineU8StartOffsetInFull
                /\ text /= <<>>
                /\ lineStart /= 0
        linePhysicalStartX == IF isFirstLineOfPara THEN pStyle.firstLineIndent ELSE 0
        lineShiftX == LineShiftX(pStyle, linePhysicalStartX, committedLineWidthNoIndent)
        placed == [i \in 1..Len(pendingElements) |->
                      [pendingElements[i] EXCEPT !.position.x = @ + lineShiftX]]
        finalizedLine == LineRecord(tb, pendingElements, lineStart,
                                    committedLineWidthNoIndent, currentLineBoxTopY,
                                    nextLineU8StartOffsetInFull)
    IN  IF skip
        THEN [tb |-> tb, currentLineBoxTopY |-> currentLineBoxTopY]
        ELSE [tb |-> [tb EXCEPT !.elements = @ \o placed,
                                !.lines = Append(@, finalizedLine)],
              currentLineBoxTopY |-> currentLineBoxTopY + LineBoxHeight]

\* ------------------------------------------------------------------------
\* The spans of a paragraph.  A span is [text, fontId, isImage]; an image
\* span without text stands in the paragraph as U+FFFC.  Spans are counted
\* from 0, as originalSpanIndex is.
\* ------------------------------------------------------------------------
SpanText(span) ==
    IF span.isImage /\ span.text = <<>> THEN <<"obj">> ELSE span.text

RECURSIVE FullText(_)
\* fullUtf8Text_local (as characters): the texts of the spans in order
FullText(spans) ==
    IF spans = <<>> THEN <<>>
    ELSE SpanText(Head(spans)) \o FullText(Tail(spans))

\* spanMap_local[i].u8_start_offset_in_full and .u8_length_in_full
SpanU8Start(spans, i) == Utf16ToUtf8Len(FullText(SubSeq(spans, 1, i)))
SpanU8Len(spans, i) == Utf16ToUtf8Len(SpanText(spans[i + 1]))

\* the first span that holds byte runU8StartByteInFull, the last span also
\* when the byte is the end of the text; span 0 when there is none
RunDominantSpanIdx(spans, runU8StartByteInFull) ==
    LET holding ==
            {i \in 0..(Len(spans) - 1) :
                \/ /\ runU8StartByteInFull >= SpanU8Start(spans, i)
                   /\ runU8StartByteInFull < SpanU8Start(spans, i) + SpanU8Len(spans, i)
                \/ /\ runU8StartByteInFull = SpanU8Start(spans, i) + SpanU8Len(spans, i)
                   /\ runU8StartByteInFull = Utf16ToUtf8Len(FullText(spans))
                   /\ i = Len(spans) - 1}
    IN  IF holding = {} THEN 0 ELSE MinOf(holding)

\* the image spans that hold the byte at which a U+FFFC starts
ImageSpansAt(spans, placeholder_global_u8_start) ==
    {i \in 0..(Len(spans) - 1) :
        /\ spans[i + 1].isImage
        /\ placeholder_global_u8_start >= SpanU8Start(spans, i)
        /\ placeholder_global_u8_start < SpanU8Start(spans, i) + SpanU8Len(spans, i)}

\* ------------------------------------------------------------------------
\* Shaping one break segment.  run is the visual run being shaped: its
\* text, the byte offset of its start, its dominant span with the start
\* and the length of that span, its font, its direction and (history) the
\* UTF-16 index at which its segment starts.
\* ------------------------------------------------------------------------
\* the source mapping after the boundary checks against the span text
ClampedToSpan(offset, numBytes, spanLen) ==
    [sourceCharByteOffsetInSpan |-> Min(offset, spanLen),
     numSourceCharBytesInSpan |->
         IF offset > spanLen THEN 0
         ELSE IF offset + numBytes > spanLen THEN spanLen - offset
         ELSE numBytes]

\* num_bytes_for_this_glyph_original_source
ClusterBytes(run, cluster) ==
    LET runU8Len == Utf16ToUtf8Len(run.u16)
        counted == IF cluster < runU8Len
                   THEN Utf8Bytes(run.u16[CharAtByte(run.u16, cluster) + 1])
                   ELSE 0
    IN  IF cluster + counted > runU8Len THEN runU8Len - cluster ELSE counted

\* sourceCharByteOffsetInSpan and numSourceCharBytesInSpan of a glyph
SourceMapping(run, cluster) ==
    IF run.u8Start + cluster >= run.spanStart
    THEN ClampedToSpan(run.u8Start + cluster - run.spanStart,
                       ClusterBytes(run, cluster), run.spanLen)
    ELSE ClampedToSpan(0, 0, run.spanLen)

\* bitmap_left of the glyph slot after FT_Render_Glyph: the bitmap of a
\* glyph other than .notdef starts left of the glyph origin (the margin a
\* distance field has around the outline)
SlotBitmapLeft(face, gid) == IF gid = 0 THEN 0 ELSE 0 - 4

\* pGlyph.renderInfo: the texture, the rectangle and isSDF of the cached
\* glyph and its drawOffset, which is (bitmap_left, -bitmap_top) of the
\* glyph slot (a bitmap that stands on the baseline) when the glyph was
\* placed in an atlas and (0, 0) when it was not
RenderInfoOf(glyph, bitmap_left, bitmap_top) ==
    [atlasTexture |-> glyph.atlasTexture,
     atlasRect |-> glyph.atlasRect,
     isSDF |-> glyph.isSDF,
     drawOffset |-> IF glyph.atlasTexture /= 0
                    THEN <<bitmap_left, 0 - bitmap_top>> ELSE <<0, 0>>]

\* a glyph keeps (history) the segment it was shaped in and the byte of the
\* text at which its cluster starts
GlyphRecord(info, run, actualFontForGIDCacheLookup, penX, mapping) ==
    [glyphId |-> info.codepoint,
     sourceFont |-> actualFontForGIDCacheLookup,
     xAdvance |-> info.x_advance,
     position |-> [x |-> penX, y |-> 0],
     sourceSpanIndex |-> run.spanIdx,
     sourceCharByteOffsetInSpan |-> mapping.sourceCharByteOffsetInSpan,
     numSourceCharBytesInSpan |-> mapping.numSourceCharBytesInSpan,
     visualRunDirectionHint |-> run.direction,
     renderInfo |-> RenderInfoOf(EmptyCachedGlyph, 0, 0),
     segment |-> run.segment,
     clusterByteInText |-> run.u8Start + info.cluster]

PositionedGlyph(info, run, actualFontForGIDCacheLookup, penX) ==
    GlyphRecord(info, run, actualFontForGIDCacheLookup, penX,
                SourceMapping(run, info.cluster))

\* the image placed for a U+FFFC of the image span imageOriginalSpanIdx;
\* penAdvanceX is left as PositionedImage() initializes it
PositionedImage(run, imageOriginalSpanIdx, penX) ==
    [position |-> [x |-> penX, y |-> 0],
     width |-> RunFontSize,
     penAdvanceX |-> 0,
     sourceSpanIndex |-> imageOriginalSpanIdx,
     sourceCharByteOffsetInSpan |-> 0,
     numSourceCharBytesInSpan |-> 3,
     segment |-> run.segment]

\* original_codepoint_for_glyph is U+FFFC
ClusterIsPlaceholder(run, cluster) ==
    /\ cluster < Utf16ToUtf8Len(run.u16)
    /\ run.u16[CharAtByte(run.u16, cluster) + 1] = "obj"

\* the element of one glyph of the buffer with the cache state it leaves:
\* an image (no glyph is fetched) or a glyph fetched through the cache,
\* with FreeType and the atlas allocation succeeding
ImageElement(acc, info, run, imageSpans) ==
    [c |-> acc.c,
     elements |-> Append(acc.elements, PositionedImage(run, MinOf(imageSpans), acc.penX)),
     penX |-> acc.penX + info.x_advance]

\* a glyph is an element only when its lookup missed the cache
GlyphElementOnMissOnly(acc, info, run, g) ==
    [c |-> g.c,
     elements |-> IF g.hit THEN acc.elements
                  ELSE Append(acc.elements,
                              [PositionedGlyph(info, run, g.actualFontIdUsed, acc.penX)
                                 EXCEPT !.renderInfo =
                                    RenderInfoOf(g.glyph,
                                      SlotBitmapLeft(loadedFonts_[g.actualFontIdUsed], info.codepoint),
                                      SlotBitmap(loadedFonts_[g.actualFontIdUsed], info.codepoint)[2])]),
     penX |-> acc.penX + info.x_advance]

GlyphElement(acc, info, run, g) ==
    [c |-> g.c,
     elements |-> Append(acc.elements,
                         [PositionedGlyph(info, run, g.actualFontIdUsed, acc.penX)
                            EXCEPT !.renderInfo =
                               RenderInfoOf(g.glyph,
                                      SlotBitmapLeft(loadedFonts_[g.actualFontIdUsed], info.codepoint),
                                      SlotBitmap(loadedFonts_[g.actualFontIdUsed], info.codepoint)[2])]),
     penX |-> acc.penX + info.x_advance]

ShapeGlyph(acc, info, run, imageSpans) ==
    IF ClusterIsPlaceholder(run, info.cluster) /\ imageSpans /= {}
    THEN ImageElement(acc, info, run, imageSpans)
    ELSE GlyphElement(acc, info, run,
                      getCachedGlyphByGID(acc.c, run.fontId, info.codepoint, TRUE, TRUE))

RECURSIVE ShapeGlyphs(_, _, _, _)
\* the glyph loop of a run
ShapeGlyphs(acc, infos, j, run) ==
    IF j > Len(infos) THEN acc
    ELSE ShapeGlyphs(ShapeGlyph(acc, infos[j], run,
                                ImageSpansAt(run.spans, run.u8Start + infos[j].cluster)),
                     infos, j + 1, run)

\* the run that starts at byte runU8StartByteInFull, in its dominant span
RunInSpan(runU16, runU8StartByteInFull, direction, lastU16BreakPos, spans, runDominantSpanIdx, paraDefFontId) ==
    [u16 |-> runU16,
     u8Start |-> runU8StartByteInFull,
     fontId |-> IF IsFontValid(spans[runDominantSpanIdx + 1].fontId)
                THEN spans[runDominantSpanIdx + 1].fontId ELSE paraDefFontId,
     direction |-> direction,
     spanIdx |-> runDominantSpanIdx,
     spanStart |-> SpanU8Start(spans, runDominantSpanIdx),
     spanLen |-> SpanU8Len(spans, runDominantSpanIdx),
     spans |-> spans,
     segment |-> lastU16BreakPos]

RunAtByte(runU16, runU8StartByteInFull, direction, lastU16BreakPos, spans, paraDefFontId) ==
    RunInSpan(runU16, runU8StartByteInFull, direction, lastU16BreakPos, spans,
              RunDominantSpanIdx(spans, runU8StartByteInFull), paraDefFontId)

\* the visual run vr of the segment, as the glyph loop reads it
RunOfSegment(vr, segmentToShapeU16, lastU16BreakPos, fullU16, spans, paraDefFontId) ==
    RunAtByte(SubSeq(segmentToShapeU16, vr.logicalStart + 1, vr.logicalStart + vr.length),
              Utf16ToUtf8Len(SubSeq(fullU16, 1, lastU16BreakPos + vr.logicalStart)),
              vr.direction, lastU16BreakPos, spans, paraDefFontId)

\* one visual run: skipped without a valid font, else shaped in its
\* direction, its glyphs placed from the pen position the earlier runs of
\* the segment left
ShapeRun(acc, run) ==
    IF ~IsFontValid(run.fontId) THEN acc
    ELSE ShapeGlyphs(acc, hb_shape_dir(loadedFonts_[run.fontId], run.u16, run.direction), 1, run)

RECURSIVE ShapeRuns(_, _, _, _, _, _, _, _)
\* the loop over the visual runs of the segment
ShapeRuns(acc, runs, i_run, segmentToShapeU16, lastU16BreakPos, fullU16, spans, paraDefFontId) ==
    IF i_run > Len(runs) THEN acc
    ELSE ShapeRuns(ShapeRun(acc, RunOfSegment(runs[i_run], segmentToShapeU16, lastU16BreakPos, fullU16, spans, paraDefFontId)),
                   runs, i_run + 1, segmentToShapeU16, lastU16BreakPos, fullU16, spans, paraDefFontId)

\* elements_for_this_segment and width_of_this_segment (penX)
ShapeSegment(c, segmentToShapeU16, lastU16BreakPos, fullU16, spans, paraDefFontId) ==
    IF segmentToShapeU16 = <<>>
    THEN [c |-> c, elements |-> <<>>, penX |-> 0]
    ELSE ShapeRuns([c |-> c, elements |-> <<>>, penX |-> 0],
                   ubidi_getVisualRuns(segmentToShapeU16, ubidi_getParaLevel(fullU16)),
                   1, segmentToShapeU16, lastU16BreakPos, fullU16, spans, paraDefFontId)

ShouldWrapIgnoringIndent(pStyle, isFirstLineOfParagraph, currentLineCommittedWidth, width_of_this_segment, pendingLineElements) ==
    /\ pStyle.wrapWidth > 0
    /\ currentLineCommittedWidth + width_of_this_segment > pStyle.wrapWidth
    /\ pendingLineElements /= <<>>
    /\ width_of_this_segment > 0

\* the line breaking condition
ShouldWrap(pStyle, isFirstLineOfParagraph, currentLineCommittedWidth, width_of_this_segment, pendingLineElements) ==
    LET lineStartXWithIndent ==
            IF isFirstLineOfParagraph THEN pStyle.firstLineIndent ELSE 0
    IN  /\ pStyle.wrapWidth > 0
        /\ lineStartXWithIndent + currentLineCommittedWidth
               + width_of_this_segment > pStyle.wrapWidth
        /\ pendingLineElements /= <<>>
        /\ width_of_this_segment > 0

\* the loop's locals after finalizeCurrentLine returned f: the pending line
\* is cleared and the next line starts at byte lineStart
StartNewLine(S, f, lineStart) ==
    [S EXCEPT !.tb = f.tb, !.topY = f.currentLineBoxTopY,
              !.pending = <<>>, !.committed = 0, !.isFirst = FALSE,
              !.lineStart = lineStart]

\* the pending line is finalized before a segment that does not fit
WrapBeforeSegment(S, sh, pStyle, segmentU8StartByteInFull) ==
    IF ShouldWrap(pStyle, S.isFirst, S.committed, sh.penX, S.pending)
    THEN StartNewLine(S, finalizeCurrentLine(S.tb, S.pending, S.lineStart,
                                             S.committed, S.topY, S.isFirst,
                                             pStyle, segmentU8StartByteInFull),
                      segmentU8StartByteInFull)
    ELSE S

\* the segment's elements are appended to the pending line
AppendSegment(S, sh) ==
    IF sh.elements /= <<>>
    THEN [S EXCEPT !.pending = @ \o [i \in 1..Len(sh.elements) |->
                         [sh.elements[i] EXCEPT !.position.x = @ + S.committed]],
                   !.committed = @ + sh.penX]
    ELSE S

\* a hard newline finalizes the pending line; the next line starts after it
HardNewline(S, pStyle, u16AfterNewline, u8OffsetAfterNewline) ==
    [StartNewLine(S, finalizeCurrentLine(S.tb, S.pending, S.lineStart,
                                         S.committed, S.topY, S.isFirst,
                                         pStyle, u8OffsetAfterNewline),
                  u8OffsetAfterNewline)
        EXCEPT !.last = u16AfterNewline]

\* what the loop does with the shaped segment sh
CommitSegment(S, sh, pStyle, segmentU8StartByteInFull, containsHardNewline, currentU16BreakPos, u16AfterNewline, u8OffsetAfterNewline) ==
    IF containsHardNewline
    THEN HardNewline(AppendSegment(WrapBeforeSegment(S, sh, pStyle,
                                                     segmentU8StartByteInFull), sh),
                     pStyle, u16AfterNewline, u8OffsetAfterNewline)
    ELSE [AppendSegment(WrapBeforeSegment(S, sh, pStyle,
                                          segmentU8StartByteInFull), sh)
             EXCEPT !.last = currentU16BreakPos]

\* the iteration's result: the locals with the cache state the shaping left
StepResult(S3, sh, atEndOfParagraph) ==
    [S |-> [S3 EXCEPT !.c = sh.c],
     done |-> atEndOfParagraph /\ S3.last >= Len(S3.tb.sourceTextConcatenated)]

StepWithSegment(S, sh, pStyle, segmentU8StartByteInFull, containsHardNewline, currentU16BreakPos, u16AfterNewline, u8OffsetAfterNewline, atEndOfParagraph) ==
    StepResult(CommitSegment(S, sh, pStyle, segmentU8StartByteInFull,
                             containsHardNewline, currentU16BreakPos,
                             u16AfterNewline, u8OffsetAfterNewline),
               sh, atEndOfParagraph)

\* the segment [S.last, currentU16BreakPos) up to its first newline
SegmentToShape(fullU16, last, currentU16BreakPos) ==
    LET segmentU16 == SubSeq(fullU16, last + 1, currentU16BreakPos)
        newlines == {i \in 1..Len(segmentU16) : segmentU16[i] = "nl"}
    IN  [containsHardNewline |-> newlines /= {},
         u16 |-> IF newlines /= {}
                 THEN SubSeq(segmentU16, 1, MinOf(newlines) - 1)
                 ELSE segmentU16]

\* the break position after S.last
NextBreak(fullU16, strategy, last) ==
    LET following == ubrk_following(fullU16, strategy, last)
        atEndOfParagraph == following = UBRK_DONE
        cur0 == IF atEndOfParagraph THEN Len(fullU16) ELSE following
        cur1 == IF last = cur0 /\ ~atEndOfParagraph /\ cur0 < Len(fullU16)
                THEN cur0 + 1 ELSE cur0
    IN  [atEndOfParagraph |-> atEndOfParagraph,
         currentU16BreakPos |-> Min(cur1, Len(fullU16))]

StepAtBreak(S, brk, seg, spans, paraDefFontId, pStyle) ==
    StepWithSegment(S,
        ShapeSegment(S.c, seg.u16, S.last, S.tb.sourceTextConcatenated,
                     spans, paraDefFontId),
        pStyle,
        Utf16ToUtf8Len(SubSeq(S.tb.sourceTextConcatenated, 1, S.last)),
        seg.containsHardNewline, brk.currentU16BreakPos,
        S.last + Len(seg.u16) + 1,
        Utf16ToUtf8Len(SubSeq(S.tb.sourceTextConcatenated, 1,
                              S.last + Len(seg.u16) + 1)),
        brk.atEndOfParagraph)

StepFromBreak(S, brk, spans, paraDefFontId, pStyle) ==
    StepAtBreak(S, brk,
                SegmentToShape(S.tb.sourceTextConcatenated, S.last,
                               brk.currentU16BreakPos),
                spans, paraDefFontId, pStyle)

\* ------------------------------------------------------------------------
\* One iteration of the segment loop of LayoutStyledText.  S holds the
\* locals of the loop: the block, the pending line, the cache state.
\* ------------------------------------------------------------------------
LayoutStep(S, spans, paraDefFontId, pStyle) ==
    StepFromBreak(S, NextBreak(S.tb.sourceTextConcatenated,
                               pStyle.lineBreakStrategy, S.last),
                  spans, paraDefFontId, pStyle)

RECURSIVE LayoutLoop(_, _, _, _)
\* the loop goes on from the result r of an iteration unless it is done
LoopAfterStep(r, spans, paraDefFontId, pStyle) ==
    IF r.done THEN r.S
    ELSE LayoutLoop(r.S, spans, paraDefFontId, pStyle)

LayoutLoop(S, spans, paraDefFontId, pStyle) ==
    IF ~ \/ S.last < Len(S.tb.sourceTextConcatenated)
         \/ /\ S.last = 0 /\ S.tb.sourceTextConcatenated = <<>>
            /\ S.tb.lines = <<>>
    THEN S
    ELSE IF /\ S.last >= Len(S.tb.sourceTextConcatenated)
            /\ S.tb.sourceTextConcatenated /= <<>>
    THEN S
    ELSE LoopAfterStep(LayoutStep(S, spans, paraDefFontId, pStyle),
                       spans, paraDefFontId, pStyle)

\* the last pending line is finalized if it holds elements or no line exists
FinishLayout(S, pStyle, textU8Len) ==
    [tb |-> IF S.pending /= <<>> \/ S.tb.lines = <<>>
            THEN finalizeCurrentLine(S.tb, S.pending, S.lineStart, S.committed,
                                     S.topY, S.isFirst, pStyle, textU8Len).tb
            ELSE S.tb,
     c |-> S.c]

\* ------------------------------------------------------------------------
\* LayoutStyledText.  Returns the block and the cache state the glyph
\* lookups leave.
\* ------------------------------------------------------------------------
layoutStyledText(c, spans, pStyle) ==
    LET block == [EmptyTextBlock EXCEPT !.paragraphStyleUsed = pStyle,
                                        !.sourceSpansCopied = spans]
        emptyLine ==
            [sourceTextByteStartIndexInBlockText |-> 0,
             sourceTextByteEndIndexInBlockText |-> 0,
             firstElementIndexInBlockElements |-> 0,
             numElementsInLine |-> 0, lineWidth |-> 0, lineBoxY |-> 0,
             lineBoxHeight |-> LineBoxHeight,
             baselineYInBox |-> BaselineYInBox,
             visualRuns |-> <<>>, visualToLogicalMap |-> <<>>,
             logicalToVisualMap |-> <<>>]
    IN  IF spans = <<>>
        THEN [tb |-> [block EXCEPT !.lines = <<emptyLine>>], c |-> c]
        ELSE
          LET paraDefFontId ==
                  IF IsFontValid(pStyle.defaultCharacterStyle.fontId)
                  THEN pStyle.defaultCharacterStyle.fontId ELSE defaultFontId_
              S0 == [tb |-> [block EXCEPT !.sourceTextConcatenated = FullText(spans)],
                     pending |-> <<>>, committed |-> 0, isFirst |-> TRUE,
                     lineStart |-> 0, topY |-> 0, last |-> 0, c |-> c]
          IN  FinishLayout(LayoutLoop(S0, spans, paraDefFontId, pStyle),
                           pStyle, Utf16ToUtf8Len(FullText(spans)))

\* ------------------------------------------------------------------------
\* What the cursor and hit-test functions share
\* ------------------------------------------------------------------------
Abs(v) == IF v < 0 THEN -v ELSE v

\* text[b] = '\n' for a byte offset b of the UTF-8 form
ByteIsNewline(u16, b) ==
    \E i \in 1..Len(u16) :
        u16[i] = "nl" /\ Utf16ToUtf8Len(SubSeq(u16, 1, i - 1)) = b

\* isThisLineFirstInParagraph: the line starts the text or follows a newline
IsLineFirstInParagraph(tb, line) ==
    \/ line.sourceTextByteStartIndexInBlockText = 0
    \/ /\ line.sourceTextByteStartIndexInBlockText > 0
       /\ tb.sourceTextConcatenated /= <<>>
       /\ ByteIsNewline(tb.sourceTextConcatenated,
                        line.sourceTextByteStartIndexInBlockText - 1)

\* the indent and alignment shift both functions recompute for a line
LineDrawStartX(tb, line) ==
    LET indent == IF IsLineFirstInParagraph(tb, line)
                  THEN tb.paragraphStyleUsed.firstLineIndent ELSE 0
    IN  indent + LineShiftX(tb.paragraphStyleUsed, indent, line.lineWidth)

RECURSIVE RunElementOrder(_, _)
\* indices into block.elements (from 1) in the order the loops over
\* line.visualRuns and the elements of each run visit them
RunElementOrder(line, r) ==
    IF r > Len(line.visualRuns) THEN <<>>
    ELSE [k \in 1..line.visualRuns[r].numElementsInRun |->
             line.firstElementIndexInBlockElements
               + line.visualRuns[r].firstElementIndexInLineElements + k]
         \o RunElementOrder(line, r + 1)

RECURSIVE RunDirectionOrder(_, _)
\* visualRun.direction for each element RunElementOrder lists
RunDirectionOrder(line, r) ==
    IF r > Len(line.visualRuns) THEN <<>>
    ELSE [k \in 1..line.visualRuns[r].numElementsInRun |->
             line.visualRuns[r].direction]
         \o RunDirectionOrder(line, r + 1)

\* ------------------------------------------------------------------------
\* GetCursorInfoFromByteOffset
\* ------------------------------------------------------------------------
CursorInfo(byteOffsetArg, preferLeadingEdge, x, y, byteOffset, lineIndex, isTrailingEdge, isAtLogicalLineEnd) ==
    [called |-> TRUE, byteOffsetArg |-> byteOffsetArg,
     preferLeadingEdge |-> preferLeadingEdge,
     visualPosition |-> [x |-> x, y |-> y], byteOffset |-> byteOffset,
     lineIndex |-> lineIndex, isAtLogicalLineEnd |-> isAtLogicalLineEnd,
     isTrailingEdge |-> isTrailingEdge]

\* the lines (from 1) the loop over the lines accepts for the offset
LinesHolding(tb, byteOffset) ==
    {i \in 1..Len(tb.lines) :
        \/ /\ byteOffset >= tb.lines[i].sourceTextByteStartIndexInBlockText
           /\ byteOffset < tb.lines[i].sourceTextByteEndIndexInBlockText
        \/ /\ byteOffset = tb.lines[i].sourceTextByteEndIndexInBlockText
           /\ \/ i = Len(tb.lines)
              \/ byteOffset < tb.lines[i + 1].sourceTextByteStartIndexInBlockText
        \/ /\ byteOffset = Utf16ToUtf8Len(tb.sourceTextConcatenated)
           /\ i = Len(tb.lines)}

\* the positions in order of the elements whose byte range, ends included,
\* holds the offset
ElementsHolding(tb, order, byteOffset) ==
    {k \in 1..Len(order) :
        /\ byteOffset >= tb.elements[order[k]].sourceCharByteOffsetInSpan
        /\ byteOffset <= tb.elements[order[k]].sourceCharByteOffsetInSpan
                           + tb.elements[order[k]].numSourceCharBytesInSpan}

\* the edge of the element found: the run direction is not consulted
CursorAtElement(el, lineDrawStartX, y, byteOffset, lineIndex, atEnd, byteOffsetArg, preferLeadingEdge) ==
    IF \/ (byteOffset = el.sourceCharByteOffsetInSpan /\ preferLeadingEdge)
       \/ 2 * byteOffset < 2 * el.sourceCharByteOffsetInSpan
                             + el.numSourceCharBytesInSpan
    THEN CursorInfo(byteOffsetArg, preferLeadingEdge,
                    lineDrawStartX + el.position.x, y, byteOffset, lineIndex,
                    FALSE, atEnd)
    ELSE CursorInfo(byteOffsetArg, preferLeadingEdge,
                    lineDrawStartX + el.position.x + el.xAdvance, y,
                    byteOffset, lineIndex, TRUE, atEnd)

CursorInLine(tb, line, order, hits, lineDrawStartX, y, byteOffset, lineIndex, atEnd, byteOffsetArg, preferLeadingEdge) ==
    IF line.numElementsInLine = 0
    THEN CursorInfo(byteOffsetArg, preferLeadingEdge, lineDrawStartX, y,
                    byteOffset, lineIndex, ~preferLeadingEdge, atEnd)
    ELSE IF hits = {}
    THEN CursorInfo(byteOffsetArg, preferLeadingEdge,
                    lineDrawStartX + line.lineWidth, y, byteOffset, lineIndex,
                    TRUE, atEnd)
    ELSE CursorAtElement(tb.elements[order[MinOf(hits)]], lineDrawStartX, y,
                         byteOffset, lineIndex, atEnd, byteOffsetArg,
                         preferLeadingEdge)

CursorOnLine(tb, targetLineIdx, line, order, byteOffset, byteOffsetArg, preferLeadingEdge) ==
    CursorInLine(tb, line, order, ElementsHolding(tb, order, byteOffset),
                 LineDrawStartX(tb, line), line.lineBoxY + line.baselineYInBox,
                 byteOffset, targetLineIdx - 1,
                 byteOffset = line.sourceTextByteEndIndexInBlockText,
                 byteOffsetArg, preferLeadingEdge)

\* the target line, and the offset moved to the end of the last line when
\* no line holds it
CursorAtOffset(tb, found, clamped, byteOffsetArg, preferLeadingEdge) ==
    IF found /= {}
    THEN CursorOnLine(tb, MinOf(found), tb.lines[MinOf(found)],
                      RunElementOrder(tb.lines[MinOf(found)], 1), clamped,
                      byteOffsetArg, preferLeadingEdge)
    ELSE CursorOnLine(tb, Len(tb.lines), tb.lines[Len(tb.lines)],
                      RunElementOrder(tb.lines[Len(tb.lines)], 1),
                      tb.lines[Len(tb.lines)].sourceTextByteEndIndexInBlockText,
                      byteOffsetArg, preferLeadingEdge)

CursorClamped(tb, clamped, byteOffsetArg, preferLeadingEdge) ==
    IF tb.lines = <<>>
    THEN CursorInfo(byteOffsetArg, preferLeadingEdge,
                    tb.paragraphStyleUsed.firstLineIndent, BaselineYInBox,
                    clamped, 0, TRUE, TRUE)
    ELSE CursorAtOffset(tb, LinesHolding(tb, clamped), clamped, byteOffsetArg,
                        preferLeadingEdge)

getCursorInfoFromByteOffset(tb, byteOffsetInConcatenatedText, preferLeadingEdge) ==
    CursorClamped(tb, Min(byteOffsetInConcatenatedText,
                          Utf16ToUtf8Len(tb.sourceTextConcatenated)),
                  byteOffsetInConcatenatedText, preferLeadingEdge)

\* ------------------------------------------------------------------------
\* GetByteOffsetFromVisualPosition
\* ------------------------------------------------------------------------
FarAway == 1000000000

\* U16_FWD_1 on text without surrogate pairs
U16_FWD_1(lineU16, i) == i + 1

\* the UTF-16 text of a line: Utf8ToUtf16 of bytes [start, end) of the text
LineU16(tb, line) ==
    LET text == tb.sourceTextConcatenated
        from == line.sourceTextByteStartIndexInBlockText
        to == line.sourceTextByteEndIndexInBlockText
    IN  IF to > from /\ to <= Utf16ToUtf8Len(text)
        THEN SubSeq(text, CharAtByte(text, from) + 1, CharAtByte(text, to))
        ELSE <<>>

\* the line the click falls on: the first whose box contains y, else the
\* first of those whose centre is nearest
HitLine(tb, y) ==
    LET n == Len(tb.lines)
        top(i) == tb.lines[i].lineBoxY
        direct == {i \in 1..n : y >= top(i) /\ y < top(i) + tb.lines[i].lineBoxHeight}
        dist2(i) == Abs(2 * y - (2 * top(i) + tb.lines[i].lineBoxHeight))
        nearest == {i \in 1..n : \A j \in 1..n : dist2(i) <= dist2(j)}
    IN  IF direct /= {} THEN MinOf(direct) ELSE MinOf(nearest)

\* logical_u16_start_for_element before it is clamped to the line
ElementU16Start(tb, line, el) ==
    LET textLen == Utf16ToUtf8Len(tb.sourceTextConcatenated)
        lineU8StartInBlock == line.sourceTextByteStartIndexInBlockText
        prefixLen == el.sourceCharByteOffsetInSpan - lineU8StartInBlock
    IN  IF prefixLen <= textLen - lineU8StartInBlock
           /\ lineU8StartInBlock + prefixLen <= textLen
        THEN Utf8ToUtf16Len(tb.sourceTextConcatenated, lineU8StartInBlock, prefixLen)
        ELSE 0

\* logical_u16_length_for_element
ElementU16Length(tb, el) ==
    LET n == IF el.sourceCharByteOffsetInSpan + el.numSourceCharBytesInSpan
                    <= Utf16ToUtf8Len(tb.sourceTextConcatenated)
                /\ el.numSourceCharBytesInSpan > 0
             THEN Utf8ToUtf16Len(tb.sourceTextConcatenated,
                                 el.sourceCharByteOffsetInSpan,
                                 el.numSourceCharBytesInSpan)
             ELSE 0
    IN  IF n = 0 /\ el.numSourceCharBytesInSpan > 0 THEN 1 ELSE n

\* bestHitVisualU16IndexInLine for a logical index of the line
VisualIndexOf(line, lineU16, target_logical_idx) ==
    IF line.logicalToVisualMap /= <<>>
    THEN line.logicalToVisualMap[
             Max(0, Min(target_logical_idx, Len(line.logicalToVisualMap) - 1)) + 1]
    ELSE IF lineU16 /= <<>>
    THEN Max(0, Min(target_logical_idx, Len(line.logicalToVisualMap) - 1))
    ELSE 0

\* the logical index and edge chosen from the half hit and the direction of
\* the run: the first character and leading edge on the left half of an
\* LTR element and on the right half of an RTL element, the last character
\* and trailing edge on the other half
ElementTarget(line, lineU16, u16Start, u16End, leftHalf, direction, dist) ==
    IF (direction = "RTL") = leftHalf
    THEN [dist |-> dist,
          index |-> VisualIndexOf(line, lineU16,
                        IF u16End > u16Start THEN u16End - 1 ELSE u16Start),
          trailing |-> TRUE]
    ELSE [dist |-> dist, index |-> VisualIndexOf(line, lineU16, u16Start),
          trailing |-> FALSE]

ElementHalf(line, lineU16, u16Start0, u16Length, el, direction, x, leftHalf) ==
    ElementTarget(line, lineU16,
                  Max(0, Min(u16Start0, Len(lineU16))),
                  Max(Max(0, Min(u16Start0, Len(lineU16))),
                      Min(u16Start0 + u16Length, Len(lineU16))),
                  leftHalf, direction,
                  IF leftHalf THEN Abs(x - el.position.x)
                  ELSE Abs(x - (el.position.x + el.xAdvance)))

\* the candidate an element offers for a click at x
ElementCandidate(tb, line, lineU16, el, direction, x) ==
    ElementHalf(line, lineU16, ElementU16Start(tb, line, el),
                ElementU16Length(tb, el), el, direction, x,
                2 * x < 2 * el.position.x + el.xAdvance)

BetterHit(cand, best) == IF cand.dist < best.dist THEN cand ELSE best

RECURSIVE BestHit(_, _, _, _, _, _, _, _)
\* the element loop: a candidate replaces the best one when strictly nearer
BestHit(best, tb, line, lineU16, order, dirs, k, x) ==
    IF k > Len(order) THEN best
    ELSE BestHit(BetterHit(ElementCandidate(tb, line, lineU16,
                                            tb.elements[order[k]], dirs[k], x),
                           best),
                 tb, line, lineU16, order, dirs, k + 1, x)

\* the candidate of the visual end of the line, for a click at or right of
\* it: the first logical character when the first visual run is RTL, else
\* the trailing edge of the last logical character
LineEndCandidate(best, line, lineU16, x, lineVisualContentEndX) ==
    IF /\ x >= lineVisualContentEndX /\ lineU16 /= <<>>
       /\ Abs(x - lineVisualContentEndX) < best.dist
    THEN IF line.logicalToVisualMap = <<>>
         THEN [dist |-> Abs(x - lineVisualContentEndX),
               index |-> Len(lineU16) - 1, trailing |-> TRUE]
         ELSE IF line.visualRuns /= <<>> /\ line.visualRuns[1].direction = "RTL"
         THEN [dist |-> Abs(x - lineVisualContentEndX),
               index |-> line.logicalToVisualMap[1], trailing |-> FALSE]
         ELSE [dist |-> Abs(x - lineVisualContentEndX),
               index |-> line.logicalToVisualMap[
                             Max(0, Min(Len(lineU16) - 1,
                                        Len(line.logicalToVisualMap) - 1)) + 1],
               trailing |-> TRUE]
    ELSE best

HitResult(positionInBlockLocalCoords, byteOffset, isTrailingEdge) ==
    [called |-> TRUE, position |-> positionInBlockLocalCoords,
     byteOffset |-> byteOffset, isTrailingEdge |-> isTrailingEdge]

\* bestHitVisualU16IndexInLine after the bounds check
SaneVisualIndex(line, index) ==
    IF line.visualToLogicalMap /= <<>> /\ index >= Len(line.visualToLogicalMap)
    THEN Len(line.visualToLogicalMap) - 1
    ELSE IF line.visualToLogicalMap = <<>> THEN 0
    ELSE Max(0, index)

\* finalLogicalU16IndexInLine before it is clamped to the line
LogicalIndexOf(line, lineU16, visualIdx, trailing) ==
    IF line.visualToLogicalMap /= <<>>
    THEN IF trailing
         THEN (IF line.visualToLogicalMap[visualIdx + 1] < Len(lineU16)
               THEN U16_FWD_1(lineU16, line.visualToLogicalMap[visualIdx + 1])
               ELSE Len(lineU16))
         ELSE line.visualToLogicalMap[visualIdx + 1]
    ELSE IF lineU16 /= <<>>
    THEN (IF trailing THEN Len(lineU16) ELSE 0)
    ELSE 0

\* steps 5 and 6: the visual index to a logical index, then to a byte offset
HitFromBest(tb, line, lineU16, best, lineVisualContentStartX, positionInBlockLocalCoords) ==
    HitResult(positionInBlockLocalCoords,
              Min(line.sourceTextByteStartIndexInBlockText
                    + Utf16ToUtf8Len(SubSeq(lineU16, 1,
                          Max(0, Min(LogicalIndexOf(line, lineU16,
                                         SaneVisualIndex(line, best.index),
                                         best.trailing),
                                     Len(lineU16))))),
                  Utf16ToUtf8Len(tb.sourceTextConcatenated)),
              IF line.visualToLogicalMap = <<>> /\ lineU16 = <<>>
              THEN positionInBlockLocalCoords.x > lineVisualContentStartX
              ELSE best.trailing)

HitOnLineText(tb, line, lineU16, lineVisualContentStartX, positionInBlockLocalCoords) ==
    IF lineU16 = <<>> \/ line.numElementsInLine = 0
    THEN HitResult(positionInBlockLocalCoords,
                   line.sourceTextByteStartIndexInBlockText,
                   2 * positionInBlockLocalCoords.x
                     > 2 * lineVisualContentStartX + line.lineWidth)
    ELSE IF /\ positionInBlockLocalCoords.x < lineVisualContentStartX
            /\ line.visualToLogicalMap /= <<>>
    THEN HitResult(positionInBlockLocalCoords,
                   line.sourceTextByteStartIndexInBlockText
                     + Utf16ToUtf8Len(SubSeq(lineU16, 1, line.visualToLogicalMap[1])),
                   FALSE)
    ELSE HitFromBest(tb, line, lineU16,
                     LineEndCandidate(
                         BestHit([dist |-> FarAway, index |-> 0, trailing |-> FALSE],
                                 tb, line, lineU16, RunElementOrder(line, 1),
                                 RunDirectionOrder(line, 1), 1,
                                 positionInBlockLocalCoords.x),
                         line, lineU16, positionInBlockLocalCoords.x,
                         lineVisualContentStartX + line.lineWidth),
                     lineVisualContentStartX, positionInBlockLocalCoords)

HitOnLine(tb, line, positionInBlockLocalCoords) ==
    HitOnLineText(tb, line, LineU16(tb, line), LineDrawStartX(tb, line),
                  positionInBlockLocalCoords)

getByteOffsetFromVisualPosition(tb, positionInBlockLocalCoords) ==
    IF tb.lines = <<>>
    THEN HitResult(positionInBlockLocalCoords, 0, positionInBlockLocalCoords.x > 0)
    ELSE HitOnLine(tb, tb.lines[HitLine(tb, positionInBlockLocalCoords.y)],
                   positionInBlockLocalCoords)

\* ------------------------------------------------------------------------
\* GetTextRangeBounds.  A rectangle is kept as its x and width, with
\* (history) the line it was made for.
\* ------------------------------------------------------------------------
\* elGlobalByteStart: the lengths of the spans before the element's span,
\* then the element's offset in its span
ElGlobalByteStart(tb, el) ==
    SpanU8Start(tb.sourceSpansCopied, el.sourceSpanIndex) + el.sourceCharByteOffsetInSpan

\* renderScale = sourceSize / sdfPixelSizeHint applied to an atlas length
RenderScaled(n) == (n * RunFontSize) \div DefaultSdfPixelSize

\* elVisualWidth
ElVisualWidth(el) ==
    IF IsImage(el) THEN el.width
    ELSE IF el.renderInfo.isSDF /\ IsFontValid(el.sourceFont)
    THEN RenderScaled(el.renderInfo.atlasRect.width)
    ELSE el.xAdvance

\* actualVisualStartX = elVisualX + elDrawOffsetX
ActualVisualStartX(el) ==
    IF ~IsImage(el) /\ el.renderInfo.isSDF /\ IsFontValid(el.sourceFont)
    THEN el.position.x + RenderScaled(el.renderInfo.drawOffset[1])
    ELSE el.position.x

\* the element is at least partly in the effective range of the line
InEffectiveRange(tb, el, effectiveRangeStart, effectiveRangeEnd) ==
    /\ ElGlobalByteStart(tb, el) + el.numSourceCharBytesInSpan > effectiveRangeStart
    /\ ElGlobalByteStart(tb, el) < effectiveRangeEnd

\* the run rectangle pushed to boundsList
RunRect(lineIndex, currentRunMinX, currentRunMaxX) ==
    [line |-> lineIndex, x |-> currentRunMinX, width |-> currentRunMaxX - currentRunMinX]

\* currentRunMinX and currentRunMaxX after an element of the range
RunExtended(run, startX, width) ==
    IF run.minX < 0
    THEN [run EXCEPT !.minX = startX, !.maxX = startX + width]
    ELSE [run EXCEPT !.minX = Min(run.minX, startX), !.maxX = Max(run.maxX, startX + width)]

\* the run after an element: extended by an element of the range, pushed
\* and reset by an element outside the range when a run is active
RunAfterElement(tb, run, el, lineIndex, from, to) ==
    IF InEffectiveRange(tb, el, from, to)
    THEN RunExtended(run, ActualVisualStartX(el), ElVisualWidth(el))
    ELSE IF run.minX >= 0
    THEN [run EXCEPT !.bounds = Append(@, RunRect(lineIndex, run.minX, run.maxX)),
                     !.minX = 0 - 1]
    ELSE run

RECURSIVE RangeBoundsOfElements(_, _, _, _, _, _)
\* the element loop of a line, from element i (from 0) of the line on
RangeBoundsOfElements(tb, run, lineIndex, i, from, to) ==
    IF i >= tb.lines[lineIndex].numElementsInLine
    THEN IF run.minX >= 0
         THEN Append(run.bounds, RunRect(lineIndex, run.minX, run.maxX))
         ELSE run.bounds
    ELSE RangeBoundsOfElements(tb,
             RunAfterElement(tb, run,
                 tb.elements[tb.lines[lineIndex].firstElementIndexInBlockElements + i + 1],
                 lineIndex, from, to),
             lineIndex, i + 1, from, to)

\* the rectangles of one line: none when the range does not overlap it
RangeBoundsOfLine(tb, lineIndex, effectiveRangeStart, effectiveRangeEnd) ==
    IF effectiveRangeStart >= effectiveRangeEnd THEN <<>>
    ELSE RangeBoundsOfElements(tb, [minX |-> 0 - 1, maxX |-> 0, bounds |-> <<>>],
                               lineIndex, 0, effectiveRangeStart, effectiveRangeEnd)

RECURSIVE RangeBoundsFromLine(_, _, _, _)
\* the line loop, from line lineIndex (from 1) on
RangeBoundsFromLine(tb, lineIndex, byteOffsetStart, byteOffsetEnd) ==
    IF lineIndex > Len(tb.lines) THEN <<>>
    ELSE RangeBoundsOfLine(tb, lineIndex,
             Max(byteOffsetStart, tb.lines[lineIndex].sourceTextByteStartIndexInBlockText),
             Min(byteOffsetEnd, tb.lines[lineIndex].sourceTextByteEndIndexInBlockText))
           \o RangeBoundsFromLine(tb, lineIndex + 1, byteOffsetStart, byteOffsetEnd)

GetTextRangeBounds(tb, byteOffsetStart, byteOffsetEnd) ==
    IF byteOffsetStart >= byteOffsetEnd \/ tb.lines = <<>> THEN <<>>
    ELSE RangeBoundsFromLine(tb, 1, byteOffsetStart, byteOffsetEnd)

\* CursorLocationInfo(), with the arguments of the call that produced it
NoCursorInfo ==
    [called |-> FALSE, byteOffsetArg |-> 0, preferLeadingEdge |-> FALSE,
     visualPosition |-> [x |-> 0, y |-> 0], byteOffset |-> 0,
     lineIndex |-> -1, isAtLogicalLineEnd |-> FALSE, isTrailingEdge |-> FALSE]

\* no hit test made yet
NoHitResult ==
    [called |-> FALSE, position |-> [x |-> 0, y |-> 0], byteOffset |-> 0,
     isTrailingEdge |-> FALSE]

\* ------------------------------------------------------------------------
\* Arguments the operations are called with
\* ------------------------------------------------------------------------
FontIdArgs == {INVALID_FONT_ID} \cup (FirstFontId..MaxFontId)
FontFiles == Faces \cup {"unreadable"}
AtlasDimArgs == {<<DefaultAtlasDim, DefaultAtlasDim>>}
AtlasTypes == {"SDF_BITMAP"}
\* page dimensions asked for under AtlasSpec: the default page, a page of
\* two rows, and dimensions that are not positive
PageDimArgs == {<<DefaultAtlasDim, DefaultAtlasDim>>,
                <<DefaultAtlasDim, 2 * DefaultAtlasDim>>, <<0, 0>>}
\* FreeType outcomes of a getOrCacheGlyph call and of its .notdef retry, with
\* whether a new atlas page can be allocated
FtOutcomes == {<<"none">>, <<"render">>, <<"load", "none">>,
               <<"load", "load">>}
GlyphOutcomes == {[errs |-> e, allocOk |-> TRUE] : e \in FtOutcomes}
                   \cup {[errs |-> <<"none">>, allocOk |-> FALSE]}
\* texts, spans and paragraph styles laid out
Texts(alphabet) == UNION {[1..n -> alphabet] : n \in 0..MaxTextLen}
\* the paragraphs laid out under LayoutSpec are left-to-right
LtrChars == TextChars \ {"ar", "obj"}
LayoutSpans == {<<>>} \cup {<<[text |-> t, fontId |-> FirstFontId, isImage |-> FALSE]>> :
                                t \in Texts(LtrChars)}
LayoutStyles ==
    {[DefaultParagraphStyle EXCEPT !.wrapWidth = w, !.firstLineIndent = i,
                                   !.lineBreakStrategy = s] :
        w \in {0, 8}, i \in {0, 4},
        s \in {"ICU_WORD_BOUNDARIES", "ICU_CHARACTER_BOUNDARIES"}}
\* texts and styles whose blocks the cursor and hit-test functions are
\* asked about
CursorTexts == Texts({"a", "zh", "nl"})
CursorStyles ==
    {[DefaultParagraphStyle EXCEPT !.wrapWidth = w, !.firstLineIndent = i,
                                   !.alignment = a,
                                   !.lineBreakStrategy = "ICU_WORD_BOUNDARIES"] :
        w \in {0, 16}, i \in {0, 4}, a \in {"LEFT", "CENTER", "RIGHT"}}
\* paragraphs of mixed direction, in one line, and the x coordinates of the
\* clicks made on them
BidiChars == {"a", "sp", "ar"}
BidiTexts == UNION {[1..n -> BidiChars] : n \in 0..MaxBidiTextLen}
BidiStyles ==
    {[DefaultParagraphStyle EXCEPT !.wrapWidth = st[1], !.firstLineIndent = st[2],
                                   !.alignment = st[3],
                                   !.lineBreakStrategy = "ICU_WORD_BOUNDARIES"] :
        st \in {<<0, 0, "LEFT">>, <<0, 4, "LEFT">>, <<40, 0, "RIGHT">>}}
HitXs == (-1)..MaxHitX
ChainArgs == {<<>>} \cup {<<f>> : f \in FontIdArgs}
                    \cup {<<f, g>> : f \in 1..MaxFontId, g \in 1..MaxFontId}

\* the key is recorded when the call found or created its cache entry;
\* evictions counts the entries the call removed from the cache
Ret(op, r, before) ==
    [op |-> op, hit |-> r.hit, miss |-> r.miss, inserted |-> r.inserted,
     key |-> IF r.hit \/ r.inserted THEN r.key ELSE NoKey,
     evictions |-> Cardinality((DOMAIN before.map) \ (DOMAIN r.c.map))]

\* operations other than get-or-create leave no result to inspect
NoRet ==
    [op |-> "none", hit |-> FALSE, miss |-> FALSE, inserted |-> FALSE,
     key |-> NoKey, evictions |-> 0]

\* ------------------------------------------------------------------------
\* Init: the engine after FTTextEngineImpl()
\* ------------------------------------------------------------------------
EngineInit ==
    /\ loadedFonts_ = <<>>
    /\ nextFontId_ = FirstFontId
    /\ loadFontReturns = <<>>
    /\ defaultFontId_ = INVALID_FONT_ID
    /\ fontFallbackChains_ = <<>>
    /\ lru_glyph_list_ = <<>>
    /\ glyph_cache_map_ = <<>>
    /\ glyph_cache_capacity_ = DefaultCacheCapacity
    /\ atlas_textures_ = <<>>
    /\ current_atlas_idx_ = -1
    /\ current_atlas_pen_pos_ = [x |-> 0, y |-> 0]
    /\ current_atlas_max_row_height_ = 0
    /\ atlas_width_ = DefaultAtlasDim
    /\ atlas_height_ = DefaultAtlasDim
    /\ atlas_type_hint_ = "SDF_BITMAP"
    /\ ret = NoRet
    /\ recency = <<>>
    /\ textBlock = EmptyTextBlock
    /\ cursorInfo = NoCursorInfo
    /\ hitResult = NoHitResult

\* ------------------------------------------------------------------------
\* Font registry operations
\* ------------------------------------------------------------------------
\* an id that is free but may have been returned before
LowestFreeFontId(next, loaded) ==
    MinOf({i \in FirstFontId..next : i \notin DOMAIN loaded})

\* FontId id = nextFontId_++
NewFontId(next, loaded) == next

\* a font file that cannot be opened or parsed returns INVALID_FONT_ID and
\* changes nothing
LoadFont(file) ==
    /\ nextFontId_ <= MaxFontId
    /\ IF file \in Faces
       THEN /\ loadedFonts_' = MapPut(loadedFonts_,
                                      NewFontId(nextFontId_, loadedFonts_), file)
            /\ nextFontId_' = nextFontId_ + 1
            /\ defaultFontId_' = IF defaultFontId_ = INVALID_FONT_ID
                                 THEN NewFontId(nextFontId_, loadedFonts_)
                                 ELSE defaultFontId_
            /\ loadFontReturns' = Append(loadFontReturns,
                                         NewFontId(nextFontId_, loadedFonts_))
            /\ ret' = NoRet
       ELSE /\ UNCHANGED <<loadedFonts_, nextFontId_, defaultFontId_,
                           loadFontReturns>>
            /\ ret' = NoRet
    /\ UNCHANGED <<fontFallbackChains_, cacheVars, optionVars, recency,
                   layoutVars>>

\* the font's own chain dropped, the other chains left as they are
UnloadOwnChainOnly(chains, fontId) ==
    [p \in (DOMAIN chains) \ {fontId} |-> chains[p]]

\* the chains after UnloadFont(fontId): its own chain dropped, the id
\* removed from every other chain
UnloadFromChains(chains, fontId) ==
    [p \in (DOMAIN chains) \ {fontId} |-> Without(chains[p], fontId)]

UnloadFromMapOnly(c, fontId) ==
    LET kept == {k \in DOMAIN c.map : k.fontId /= fontId}
    IN  [c EXCEPT !.map = [k \in kept |-> c.map[k]],
                  !.recency = SelectSeq(c.recency, LAMBDA k : k \in kept)]

\* the cache after UnloadFont(fontId): every entry keyed by the font erased
\* from both the map and the LRU list
UnloadFromCache(c, fontId) ==
    LET keep(k) == k.fontId /= fontId
        erased == {k \in Range(c.lru) : k.fontId = fontId}
        kept == (DOMAIN c.map) \ erased
    IN  [c EXCEPT !.lru = SelectSeq(c.lru, keep),
                  !.map = [k \in kept |-> c.map[k]],
                  !.recency = SelectSeq(c.recency, LAMBDA k : k \in kept)]

\* the default font left as it was
DefaultKeptAfterUnload(defaultId, fontId, loaded) == defaultId

\* the default font after UnloadFont(fontId) left the fonts loaded: when
\* it was the font unloaded, the loaded font of the lowest id, if any
DefaultAfterUnload(defaultId, fontId, loaded) ==
    IF defaultId = fontId
    THEN (IF DOMAIN loaded = {} THEN INVALID_FONT_ID ELSE MinOf(DOMAIN loaded))
    ELSE defaultId

UnloadFont(fontId) ==
    /\ IF fontId \in DOMAIN loadedFonts_
       THEN /\ loadedFonts_' = MapErase(loadedFonts_, fontId)
            /\ fontFallbackChains_' = UnloadFromChains(fontFallbackChains_, fontId)
            /\ SetCacheState(UnloadFromCache(CacheState, fontId))
            /\ defaultFontId_' = DefaultAfterUnload(defaultFontId_, fontId,
                                                    MapErase(loadedFonts_, fontId))
       ELSE UNCHANGED <<loadedFonts_, fontFallbackChains_, cacheVars,
                        defaultFontId_, recency>>
    /\ ret' = NoRet
    /\ UNCHANGED <<nextFontId_, loadFontReturns, optionVars, layoutVars>>

SetDefaultFont(fontId) ==
    /\ defaultFontId_' = IF IsFontValid(fontId) \/ fontId = INVALID_FONT_ID
                         THEN fontId ELSE defaultFontId_
    /\ ret' = NoRet
    /\ UNCHANGED <<loadedFonts_, nextFontId_, loadFontReturns,
                   fontFallbackChains_, cacheVars, optionVars, recency,
                   layoutVars>>

SetFontFallbackChain(primaryFont, fallbackChain) ==
    /\ fontFallbackChains_' =
         IF IsFontValid(primaryFont)
         THEN MapPut(fontFallbackChains_, primaryFont,
                     SelectSeq(fallbackChain, IsFontValid))
         ELSE fontFallbackChains_
    /\ ret' = NoRet
    /\ UNCHANGED <<loadedFonts_, nextFontId_, loadFontReturns, defaultFontId_,
                   cacheVars, optionVars, recency, layoutVars>>

\* ------------------------------------------------------------------------
\* Glyph cache operations
\* ------------------------------------------------------------------------
\* the call returns r: the cache is left as the call made it
ReturnGlyph(op, r) ==
    /\ Len(r.c.pages) <= MaxAtlasPages
    /\ Cardinality(DOMAIN r.c.map) <= MaxCacheEntries
    /\ SetCacheState(r.c)
    /\ ret' = Ret(op, r, CacheState)
    /\ UNCHANGED <<fontVars, optionVars, layoutVars>>

GetOrCacheGlyph(requestedFontId, cp, errs, allocOk) ==
    ReturnGlyph("getOrCacheGlyph",
                getOrCacheGlyph(CacheState, requestedFontId, cp, errs, allocOk))

GetCachedGlyphByGID(fontId, gid, ftOk, allocOk) ==
    ReturnGlyph("getCachedGlyphByGID",
                getCachedGlyphByGID(CacheState, fontId, gid, ftOk, allocOk))

ClearGlyphCache ==
    /\ SetCacheState(performCacheCleanup(CacheState))
    /\ ret' = NoRet
    /\ UNCHANGED <<fontVars, optionVars, layoutVars>>

SetGlyphAtlasOptions(maxGlyphsEstimate, atlasWidth, atlasHeight, typeHint) ==
    LET optionsChanged == \/ glyph_cache_capacity_ /= maxGlyphsEstimate
                          \/ atlas_width_ /= atlasWidth
                          \/ atlas_height_ /= atlasHeight
                          \/ atlas_type_hint_ /= typeHint
    IN  /\ IF optionsChanged /\ atlas_textures_ /= <<>>
           THEN SetCacheState(performCacheCleanup(CacheState))
           ELSE UNCHANGED <<cacheVars, recency>>
        /\ glyph_cache_capacity_' = IF maxGlyphsEstimate > 0 THEN maxGlyphsEstimate ELSE 1
        /\ atlas_width_' = IF atlasWidth > 0 THEN atlasWidth ELSE FallbackAtlasDim
        /\ atlas_height_' = IF atlasHeight > 0 THEN atlasHeight ELSE FallbackAtlasDim
        /\ atlas_type_hint_' = typeHint
        /\ ret' = NoRet
        /\ UNCHANGED <<fontVars, layoutVars>>

\* ------------------------------------------------------------------------
\* Layout operations
\* ------------------------------------------------------------------------
\* the block is returned and the cache is left as the layout made it
ReturnTextBlock(r) ==
    /\ textBlock' = r.tb
    /\ SetCacheState(r.c)
    /\ cursorInfo' = NoCursorInfo
    /\ hitResult' = NoHitResult
    /\ ret' = NoRet
    /\ UNCHANGED <<fontVars, optionVars>>

LayoutStyledText(spans, paragraphStyle) ==
    ReturnTextBlock(layoutStyledText(CacheState, spans, paragraphStyle))

\* the hit test kept is the one made after the last cursor query
GetCursorInfoFromByteOffset(byteOffsetInConcatenatedText, preferLeadingEdge) ==
    /\ cursorInfo' = getCursorInfoFromByteOffset(textBlock,
                          byteOffsetInConcatenatedText, preferLeadingEdge)
    /\ hitResult' = NoHitResult
    /\ ret' = NoRet
    /\ UNCHANGED <<fontVars, cacheVars, optionVars, recency, textBlock>>

GetByteOffsetFromVisualPosition(positionInBlockLocalCoords) ==
    /\ hitResult' = getByteOffsetFromVisualPosition(textBlock,
                         positionInBlockLocalCoords)
    /\ ret' = NoRet
    /\ UNCHANGED <<fontVars, cacheVars, optionVars, recency, textBlock,
                   cursorInfo>>

\* main(): the right arrow key moves textEditCursorBytePosition, the offset
\* of the last cursor query, over one character of the text, and the frame
\* then asks for the cursor of the new offset
textEditCursorBytePosition == cursorInfo.byteOffsetArg

NextCodepointOffset(u16, pos) ==
    IF u16 /= <<>> /\ pos < Utf16ToUtf8Len(u16)
    THEN pos + Utf8Bytes(u16[CharAtByte(u16, pos) + 1])
    ELSE pos

KeyRight ==
    /\ cursorInfo.called
    /\ cursorInfo' = getCursorInfoFromByteOffset(textBlock,
                          Min(NextCodepointOffset(textBlock.sourceTextConcatenated,
                                                  textEditCursorBytePosition),
                              Utf16ToUtf8Len(textBlock.sourceTextConcatenated)),
                          TRUE)
    /\ hitResult' = NoHitResult
    /\ ret' = NoRet
    /\ UNCHANGED <<fontVars, cacheVars, optionVars, recency, textBlock>>

vars == <<loadedFonts_, nextFontId_, defaultFontId_, fontFallbackChains_,
          lru_glyph_list_, glyph_cache_map_, glyph_cache_capacity_,
          atlas_textures_, current_atlas_idx_, current_atlas_pen_pos_,
          current_atlas_max_row_height_, atlas_width_, atlas_height_,
          atlas_type_hint_, ret, recency, textBlock, cursorInfo, hitResult,
          loadFontReturns>>

CacheNext ==
    \/ \E file \in FontFiles : LoadFont(file)
    \/ \E f \in FontIdArgs : UnloadFont(f)
    \/ \E f \in FontIdArgs, cp \in Codepoints \ {"nul"}, o \in GlyphOutcomes :
            GetOrCacheGlyph(f, cp, o.errs, o.allocOk)
    \/ \E f \in FontIdArgs, g \in 0..MaxGlyphIndex :
            \/ \E allocOk \in BOOLEAN : GetCachedGlyphByGID(f, g, TRUE, allocOk)
            \/ GetCachedGlyphByGID(f, g, FALSE, TRUE)
    \/ ClearGlyphCache
    \/ \E n \in 0..MaxCapacityArg, d \in AtlasDimArgs, t \in AtlasTypes :
            SetGlyphAtlasOptions(n, d[1], d[2], t)

CacheSpec == EngineInit /\ [][CacheNext]_vars

\* Atlas: glyphs are packed into pages whose dimensions the options change
AtlasNext ==
    \/ \E file \in Faces : LoadFont(file)
    \/ \E f \in FirstFontId..MaxFontId : UnloadFont(f)
    \/ \E f \in FirstFontId..MaxFontId, cp \in {"a", "sp", "zh"}, allocOk \in BOOLEAN :
            GetOrCacheGlyph(f, cp, <<"none">>, allocOk)
    \/ \E f \in FirstFontId..MaxFontId, allocOk \in BOOLEAN :
            GetCachedGlyphByGID(f, 0, TRUE, allocOk)
    \/ ClearGlyphCache
    \/ \E n \in 1..MaxCapacityArg, d \in PageDimArgs, t \in AtlasTypes :
            SetGlyphAtlasOptions(n, d[1], d[2], t)

AtlasSpec == EngineInit /\ [][AtlasNext]_vars

\* Registry: fonts are loaded and unloaded, the default font and the
\* fallback chains are set with any id, and glyphs are requested
RegistryNext ==
    \/ \E file \in FontFiles : LoadFont(file)
    \/ \E f \in FontIdArgs : UnloadFont(f)
    \/ \E f \in FontIdArgs : SetDefaultFont(f)
    \/ \E f \in FontIdArgs, chain \in ChainArgs : SetFontFallbackChain(f, chain)
    \/ \E f \in FontIdArgs, cp \in {"a", "zh"} :
            GetOrCacheGlyph(f, cp, <<"none">>, TRUE)
    \/ \E f \in FontIdArgs : GetCachedGlyphByGID(f, 1, TRUE, TRUE)

RegistrySpec == EngineInit /\ [][RegistryNext]_vars

\* Layout: fonts are registered, then one paragraph is laid out
LayoutNext ==
    \/ textBlock = EmptyTextBlock /\ \E file \in Faces : LoadFont(file)
    \/ /\ textBlock = EmptyTextBlock
       /\ SetFontFallbackChain(FirstFontId, <<FirstFontId + 1>>)
    \/ /\ textBlock = EmptyTextBlock
       /\ \E spans \in LayoutSpans, pStyle \in LayoutStyles :
              LayoutStyledText(spans, pStyle)

LayoutSpec == EngineInit /\ [][LayoutNext]_vars

\* Cursor: a paragraph is laid out, the cursor is placed at a byte offset
\* and the position it reports is hit-tested
CursorNext ==
    \/ textBlock = EmptyTextBlock /\ LoadFont("latin")
    \/ /\ textBlock = EmptyTextBlock
       /\ \E t \in CursorTexts, pStyle \in CursorStyles :
              LayoutStyledText(<<[text |-> t, fontId |-> FirstFontId, isImage |-> FALSE]>>, pStyle)
    \/ \E o \in 0..Utf16ToUtf8Len(textBlock.sourceTextConcatenated),
          prefer \in BOOLEAN :
              GetCursorInfoFromByteOffset(o, prefer)
    \/ /\ cursorInfo.called
       /\ GetByteOffsetFromVisualPosition(cursorInfo.visualPosition)

CursorSpec == EngineInit /\ [][CursorNext]_vars

\* BiDi: a one-line paragraph of mixed direction is laid out and clicked
\* on once; then the cursor is put at its start and moved right key by key
BidiNext ==
    \/ textBlock = EmptyTextBlock /\ LoadFont("latin")
    \/ /\ textBlock = EmptyTextBlock
       /\ \E t \in BidiTexts, pStyle \in BidiStyles :
              LayoutStyledText(<<[text |-> t, fontId |-> FirstFontId, isImage |-> FALSE]>>, pStyle)
    \/ /\ textBlock /= EmptyTextBlock
       /\ ~cursorInfo.called
       /\ ~hitResult.called
       /\ \E x \in HitXs : GetByteOffsetFromVisualPosition([x |-> x, y |-> 0])
    \/ /\ textBlock /= EmptyTextBlock
       /\ ~cursorInfo.called
       /\ GetCursorInfoFromByteOffset(0, TRUE)
    \/ KeyRight

BidiSpec == EngineInit /\ [][BidiNext]_vars

\* ------------------------------------------------------------------------
\* Properties of the glyph cache (checked under CacheSpec)
\* ------------------------------------------------------------------------
CacheSize == Cardinality(DOMAIN glyph_cache_map_)

SomeFontUnloaded ==
    \E f \in FirstFontId..(nextFontId_ - 1) : ~IsFontValid(f)

\* C1: the key set of the cache map equals the set of keys on the LRU list,
\* and no key occurs twice on the list, after any sequence of get-or-create
\* calls, UnloadFont, ClearGlyphCache and SetGlyphAtlasOptions.
C1_MapAndListAgree ==
    /\ DOMAIN glyph_cache_map_ = Range(lru_glyph_list_)
    /\ Cardinality(Range(lru_glyph_list_)) = Len(lru_glyph_list_)

\* a font has been unloaded while entries of another font stayed cached, and
\* a get-or-create then evicted an entry to insert a new one
C1_Witness ==
    /\ SomeFontUnloaded
    /\ ret.inserted /\ ret.evictions = 1
    /\ Len(lru_glyph_list_) = 2

\* C2: when a get-or-create call has returned, the cache holds at most
\* glyph_cache_capacity_ entries.
C2_SizeWithinCapacity ==
    ret.op /= "none" => CacheSize <= glyph_cache_capacity_

LaidOut == textBlock /= EmptyTextBlock

TextByteLen == Utf16ToUtf8Len(textBlock.sourceTextConcatenated)

NumLines == Len(textBlock.lines)

LineStart(i) == textBlock.lines[i].sourceTextByteStartIndexInBlockText

LineEnd(i) == textBlock.lines[i].sourceTextByteEndIndexInBlockText

\* the elements of line i, as indices into textBlock.elements (from 1)
LineElements(i) ==
    LET l == textBlock.lines[i]
    IN  (l.firstElementIndexInBlockElements + 1)
          ..(l.firstElementIndexInBlockElements + l.numElementsInLine)

RECURSIVE SumOver(_, _)
SumOver(f, S) ==
    IF S = {} THEN 0
    ELSE LET x == CHOOSE y \in S : TRUE IN f[x] + SumOver(f, S \ {x})

\* C4: the line byte ranges of a laid-out block partition [0, |T|): the
\* first line starts at byte 0, each line ends where the next starts, no
\* line has start > end, and the last line ends at |T|.
C4_LinesPartitionText ==
    LaidOut =>
        /\ NumLines >= 1
        /\ LineStart(1) = 0
        /\ \A i \in 1..(NumLines - 1) : LineEnd(i) = LineStart(i + 1)
        /\ \A i \in 1..NumLines : LineStart(i) <= LineEnd(i)
        /\ LineEnd(NumLines) = TextByteLen

\* C5: the element index ranges of the lines partition the element array:
\* line 0 starts at element 0, each line starts where the previous one's
\* elements end, and the element counts of the lines add up to the number
\* of elements of the block.
C5_ElementRangesPartition ==
    LaidOut =>
        /\ textBlock.lines[1].firstElementIndexInBlockElements = 0
        /\ \A i \in 1..(NumLines - 1) :
              textBlock.lines[i + 1].firstElementIndexInBlockElements
                = textBlock.lines[i].firstElementIndexInBlockElements
                    + textBlock.lines[i].numElementsInLine
        /\ SumOver([i \in 1..NumLines |-> textBlock.lines[i].numElementsInLine],
                   1..NumLines) = Len(textBlock.elements)

\* a block of several lines whose last line closes the element array, one
\* line without elements and one line with two elements or more
C5_Witness ==
    /\ LaidOut
    /\ NumLines >= 2
    /\ textBlock.lines[NumLines].firstElementIndexInBlockElements
         + textBlock.lines[NumLines].numElementsInLine = Len(textBlock.elements)
    /\ \E i \in 1..NumLines : textBlock.lines[i].numElementsInLine = 0
    /\ \E i \in 1..NumLines : textBlock.lines[i].numElementsInLine >= 2

\* IsCodepointAvailable(fontId, codepoint, checkFallback)
IsCodepointAvailable(fontId, codepoint, checkFallback) ==
    LET covers(f) == IsFontValid(f) /\ FT_Get_Char_Index(loadedFonts_[f], codepoint) /= 0
        chain == ChainOf(fontId)
    IN  \/ covers(fontId)
        \/ checkFallback /\ \E i \in 1..Len(chain) : covers(chain[i])
        \/ /\ defaultFontId_ /= INVALID_FONT_ID
           /\ defaultFontId_ /= fontId
           /\ ~(checkFallback /\ defaultFontId_ \in Range(chain))
           /\ covers(defaultFontId_)

\* the font a span of the block asks for
SpanFont == textBlock.sourceSpansCopied[1].fontId

FontCovers(f, cp) ==
    IsFontValid(f) /\ FT_Get_Char_Index(loadedFonts_[f], cp) /= 0

\* C7: a codepoint the span's font P lacks but a font F of P's fallback
\* chain covers is laid out with sourceFont = F, and a codepoint P covers
\* with sourceFont = P; whenever IsCodepointAvailable(f, cp, true) holds, a
\* span of the single character cp in font f is laid out as exactly one
\* glyph whose sourceFont covers cp.
C7_FallbackFontRecorded ==
    (LaidOut /\ textBlock.sourceSpansCopied /= <<>>) =>
        LET text == textBlock.sourceTextConcatenated
            els == textBlock.elements
        IN  /\ (IsFontValid(SpanFont) /\ "nl" \notin Range(text)
                  /\ "zw" \notin Range(text)) =>
                  /\ Len(els) = Len(text)
                  /\ \A k \in 1..Len(text) :
                        IF FontCovers(SpanFont, text[k])
                        THEN els[k].sourceFont = SpanFont
                        ELSE \A j \in 1..Len(ChainOf(SpanFont)) :
                               (/\ FontCovers(ChainOf(SpanFont)[j], text[k])
                                /\ \A h \in 1..(j - 1) :
                                      ~FontCovers(ChainOf(SpanFont)[h], text[k]))
                                 => els[k].sourceFont = ChainOf(SpanFont)[j]
            /\ (Len(text) = 1 /\ IsCodepointAvailable(SpanFont, text[1], TRUE)) =>
                  /\ Len(els) = 1
                  /\ FontCovers(els[1].sourceFont, text[1])

\* history: the break segments (by the UTF-16 index at which each starts)
\* that have elements on line i, and the width of such a segment
LineSegments(i) == {textBlock.elements[k].segment : k \in LineElements(i)}

SegmentWidth(i, seg) ==
    SumOver([k \in LineElements(i) |->
                IF textBlock.elements[k].segment = seg
                THEN textBlock.elements[k].xAdvance ELSE 0],
            LineElements(i))

\* the indent the line breaking applies to line i
LineIndent(i) == IF i = 1 THEN textBlock.paragraphStyleUsed.firstLineIndent ELSE 0

\* C8 (as stated): with wrap_width > 0 every line that holds elements of
\* more than one segment has indent + lineWidth <= wrap_width, so a line
\* wider than wrap_width consists of one segment.
C8_MultiSegmentLinesFit ==
    (LaidOut /\ textBlock.paragraphStyleUsed.wrapWidth > 0) =>
        \A i \in 1..NumLines :
            Cardinality(LineSegments(i)) > 1 =>
                LineIndent(i) + textBlock.lines[i].lineWidth
                    <= textBlock.paragraphStyleUsed.wrapWidth

\* C8 (amended): with wrap_width > 0 every line that holds more than one
\* segment of positive width has indent + lineWidth <= wrap_width; a line
\* wider than wrap_width holds one segment of positive width, followed only
\* by segments of zero width.
C8_PositiveWidthSegmentsFit ==
    (LaidOut /\ textBlock.paragraphStyleUsed.wrapWidth > 0) =>
        \A i \in 1..NumLines :
            LET wide == {s \in LineSegments(i) : SegmentWidth(i, s) > 0}
            IN  IF LineIndent(i) + textBlock.lines[i].lineWidth
                      > textBlock.paragraphStyleUsed.wrapWidth
                THEN /\ Cardinality(wide) <= 1
                     /\ \A s \in LineSegments(i) : \A w \in wide : s >= w
                ELSE TRUE

\* a wrapped block: a first line of two segments of positive width that
\* fills the wrap width exactly, and a segment moved to the second line
C8_Witness ==
    /\ LaidOut
    /\ textBlock.paragraphStyleUsed.wrapWidth > 0
    /\ NumLines = 2
    /\ LineEnd(1) = LineStart(2)
    /\ Cardinality({s \in LineSegments(1) : SegmentWidth(1, s) > 0}) = 2
    /\ LineIndent(1) + textBlock.lines[1].lineWidth
         = textBlock.paragraphStyleUsed.wrapWidth
    /\ "nl" \notin Range(textBlock.sourceTextConcatenated)
    /\ textBlock.lines[2].numElementsInLine > 0

\* byte offsets of the newline characters of the text
NewlineBytes ==
    LET text == textBlock.sourceTextConcatenated
    IN  {Utf16ToUtf8Len(SubSeq(text, 1, i - 1)) : i \in {j \in 1..Len(text) : text[j] = "nl"}}

\* C9: every U+000A ends a line: a line ends just after it, the next line
\* starts there, and no element stands for the newline; with wrap_width = 0
\* a text of k newlines that does not end in a newline has k+1 lines.
C9_NewlineEndsLine ==
    (LaidOut /\ textBlock.sourceSpansCopied /= <<>>) =>
        LET text == textBlock.sourceTextConcatenated
            endsInNewline == text /= <<>> /\ text[Len(text)] = "nl"
        IN  /\ \A b \in NewlineBytes :
                  /\ \E i \in 1..NumLines : LineEnd(i) = b + 1
                  /\ (b + 1 < TextByteLen) =>
                        \E i \in 1..NumLines : LineStart(i) = b + 1
                  /\ \A k \in 1..Len(textBlock.elements) :
                        textBlock.elements[k].sourceCharByteOffsetInSpan /= b
            /\ (textBlock.paragraphStyleUsed.wrapWidth = 0 /\ ~endsInNewline) =>
                  NumLines = Cardinality(NewlineBytes) + 1

\* ------------------------------------------------------------------------
\* Properties of the cursor and hit-test functions (checked under
\* CursorSpec)
\* ------------------------------------------------------------------------
\* C6: for a byte offset o on a character boundary of a laid-out block, the
\* hit test of the position the cursor query reports for o returns o.
C6_CursorThenHitReturnsOffset ==
    (/\ LaidOut /\ IsFontValid(SpanFont)
     /\ cursorInfo.called /\ hitResult.called
     /\ hitResult.position = cursorInfo.visualPosition
     /\ IsCharBoundary(textBlock.sourceTextConcatenated, cursorInfo.byteOffsetArg))
        => hitResult.byteOffset = cursorInfo.byteOffsetArg

\* where the first glyph of line i is drawn
LineVisualStartX(i) ==
    MinOf({textBlock.elements[k].position.x : k \in LineElements(i)})

\* C10: the cursor query for 0 <= o <= |T| reports the line whose byte
\* range contains o, an offset equal to a line's end being reported on that
\* line only if there is no next line or the next line does not contain o;
\* the offset just after a hard newline is reported on the following line,
\* at that line's visual start.
C10_CursorOnContainingLine ==
    (/\ LaidOut /\ IsFontValid(SpanFont)
     /\ cursorInfo.called /\ cursorInfo.byteOffsetArg <= TextByteLen) =>
        LET o == cursorInfo.byteOffsetArg
            i == cursorInfo.lineIndex + 1
        IN  /\ i \in 1..NumLines
            /\ \/ (LineStart(i) <= o /\ o < LineEnd(i))
               \/ /\ o = LineEnd(i)
                  /\ \/ i = NumLines
                     \/ ~(LineStart(i + 1) <= o /\ o < LineEnd(i + 1))
            /\ ((o - 1) \in NewlineBytes /\ \E j \in 1..NumLines : LineStart(j) = o) =>
                  /\ LineStart(i) = o
                  /\ textBlock.lines[i].numElementsInLine > 0 =>
                        cursorInfo.visualPosition.x = LineVisualStartX(i)

\* ------------------------------------------------------------------------
\* Properties of paragraphs of mixed direction (checked under BidiSpec)
\* ------------------------------------------------------------------------
\* the paragraph is one line made of one RTL run of four characters of two
\* bytes each
OneRtlRunOfFour ==
    /\ NumLines = 1
    /\ Len(textBlock.lines[1].visualRuns) = 1
    /\ textBlock.lines[1].visualRuns[1].direction = "RTL"
    /\ textBlock.lines[1].visualRuns[1].numElementsInRun = 4
    /\ Len(textBlock.sourceTextConcatenated) = 4
    /\ \A i \in 1..4 : Utf8Bytes(textBlock.sourceTextConcatenated[i]) = 2

\* C11: on a line that is one RTL run of four 2-byte characters, every
\* move of the cursor to the right from an offset before the end of the
\* text, starting at offset 0, advances the offset by one character (0, 2,
\* 4, 6, 8) and strictly decreases the x the cursor query reports.
C11_CursorRightMovesLeft ==
    [][(/\ OneRtlRunOfFour
        /\ cursorInfo.called /\ cursorInfo'.called
        /\ textEditCursorBytePosition < TextByteLen)
          => /\ cursorInfo'.byteOffsetArg = textEditCursorBytePosition + 2
             /\ cursorInfo'.visualPosition.x < cursorInfo.visualPosition.x]_vars

\* the click of the last hit test falls in the box of element k
ClickInElement(k) ==
    /\ textBlock.elements[k].position.x <= hitResult.position.x
    /\ hitResult.position.x
          < textBlock.elements[k].position.x + textBlock.elements[k].xAdvance

ClickOnLeftHalf(k) ==
    2 * hitResult.position.x
      < 2 * textBlock.elements[k].position.x + textBlock.elements[k].xAdvance

ClickOnRightHalf(k) ==
    2 * hitResult.position.x
      > 2 * textBlock.elements[k].position.x + textBlock.elements[k].xAdvance

\* the byte offsets at which the characters of element k start and end
ElementLogicalStart(k) == textBlock.elements[k].sourceCharByteOffsetInSpan

ElementLogicalEnd(k) ==
    textBlock.elements[k].sourceCharByteOffsetInSpan
      + textBlock.elements[k].numSourceCharBytesInSpan

\* the click reaches the element loop of the hit test: the line has text
\* and elements and the click is not left of its content start
ClickReachesElements ==
    /\ LaidOut /\ hitResult.called /\ NumLines = 1
    /\ textBlock.lines[1].numElementsInLine > 0
    /\ hitResult.position.x >= LineDrawStartX(textBlock, textBlock.lines[1])

\* C12: a click in the box of an element of an LTR run returns the offset
\* of the element's logical start on its left half and of its logical end
\* on its right half; in the box of an element of an RTL run the halves
\* are swapped, so that the left half of the leftmost glyph of an RTL word
\* that ends the line returns the offset after the word.  (A click on the
\* middle of the box is on neither half.)
C12_HitHalfByDirection ==
    ClickReachesElements =>
        \A k \in LineElements(1) :
            ClickInElement(k) =>
                LET ltr == textBlock.elements[k].visualRunDirectionHint = "LTR"
                IN  /\ ClickOnLeftHalf(k) =>
                          hitResult.byteOffset = IF ltr THEN ElementLogicalStart(k)
                                                 ELSE ElementLogicalEnd(k)
                    /\ ClickOnRightHalf(k) =>
                          hitResult.byteOffset = IF ltr THEN ElementLogicalEnd(k)
                                                 ELSE ElementLogicalStart(k)

\* the line the last hit test chose
ChosenLine == HitLine(textBlock, hitResult.position.y)

\* C13: a click left of the visual content start of the chosen line (its
\* indent and alignment shift) returns the start byte offset of that line
\* with trailing = false, for every line that has elements, whatever the
\* direction of its first visual run.
C13_LeftOfContentReturnsLineStart ==
    (/\ LaidOut /\ hitResult.called /\ NumLines > 0
     /\ textBlock.lines[ChosenLine].numElementsInLine > 0
     /\ hitResult.position.x
           < LineDrawStartX(textBlock, textBlock.lines[ChosenLine]))
        => /\ hitResult.byteOffset = LineStart(ChosenLine)
           /\ ~hitResult.isTrailingEdge

\* ------------------------------------------------------------------------
\* Properties of the font registry (checked under RegistrySpec)
\* ------------------------------------------------------------------------
\* the font ids the fallback chains and the glyph cache refer to
ChainFontIds ==
    (DOMAIN fontFallbackChains_)
      \cup UNION {Range(fontFallbackChains_[p]) : p \in DOMAIN fontFallbackChains_}

CacheFontIds ==
    {k.fontId : k \in DOMAIN glyph_cache_map_} \cup {k.fontId : k \in Range(lru_glyph_list_)}

\* C14: every font id that owns a fallback chain, is a member of one or is
\* in the key of a glyph cache entry is a loaded font, after any sequence
\* of LoadFont, UnloadFont, SetFontFallbackChain and get-or-create calls;
\* so no chain and no cache entry refers to a font that was unloaded.
C14_ReferencedFontsAreLoaded ==
    (ChainFontIds \cup CacheFontIds) \subseteq DOMAIN loadedFonts_

\* a font that owned a chain, was a member of another font's chain and had
\* a cached glyph has been unloaded while another font is still loaded
\* with a chain and a cached glyph
C14_Witness ==
    /\ SomeFontUnloaded
    /\ loadedFonts_ /= <<>>
    /\ fontFallbackChains_ /= <<>>
    /\ glyph_cache_map_ /= <<>>

\* C15: the default font id is INVALID_FONT_ID or the id of a loaded font,
\* after any sequence of LoadFont, UnloadFont and SetDefaultFont calls with
\* any argument, ids never loaded or already unloaded included.
C15_DefaultFontIsLoadedOrInvalid ==
    defaultFontId_ = INVALID_FONT_ID \/ defaultFontId_ \in DOMAIN loadedFonts_

\* the first font loaded, the default one then, has been unloaded and
\* another font is the default
C15_Witness ==
    /\ Len(loadFontReturns) = 2
    /\ ~IsFontValid(loadFontReturns[1])
    /\ defaultFontId_ = loadFontReturns[2]

\* C16: every successful LoadFont returns an id that differs from
\* INVALID_FONT_ID and from every id an earlier LoadFont returned, the ids
\* of fonts unloaded since included, under any interleaving of LoadFont and
\* UnloadFont.
C16_FontIdsNeverReused ==
    /\ \A i \in 1..Len(loadFontReturns) : loadFontReturns[i] /= INVALID_FONT_ID
    /\ \A i, j \in 1..Len(loadFontReturns) :
           i /= j => loadFontReturns[i] /= loadFontReturns[j]

\* a font was loaded after an earlier one had been unloaded
C16_Witness ==
    /\ Len(loadFontReturns) = 2
    /\ ~IsFontValid(loadFontReturns[1])
    /\ IsFontValid(loadFontReturns[2])
    /\ DOMAIN loadedFonts_ = {loadFontReturns[2]}

\* ------------------------------------------------------------------------
\* Properties of the atlas (checked under AtlasSpec)
\* ------------------------------------------------------------------------
\* the cache entries whose glyph was placed in an atlas page
PlacedKeys == {k \in DOMAIN glyph_cache_map_ : glyph_cache_map_[k].atlasTexture /= 0}

RectInsidePage(rect, page) ==
    /\ rect.x >= 0
    /\ rect.y >= 0
    /\ rect.x + rect.width <= page[1]
    /\ rect.y + rect.height <= page[2]

\* C17: every rectangle the packer returned for a placed glyph lies fully
\* inside the page it was placed in, whatever page dimensions were set
C17_RectInsideItsPage ==
    \A k \in PlacedKeys :
        /\ glyph_cache_map_[k].atlasTexture \in 1..Len(atlas_textures_)
        /\ RectInsidePage(glyph_cache_map_[k].atlasRect,
                          atlas_textures_[glyph_cache_map_[k].atlasTexture])

\* a glyph placed in the second row of a page that is not the default one
C17_Witness ==
    \E k \in PlacedKeys :
        /\ glyph_cache_map_[k].atlasRect.y > 0
        /\ atlas_textures_[glyph_cache_map_[k].atlasTexture]
               /= <<DefaultAtlasDim, DefaultAtlasDim>>

\* the pages and the packer's position
PackerState(c) == <<c.pages, c.idx, c.pen, c.rowh>>

\* a step that unloads a font / a get-or-create call that evicted an entry
UnloadStep == \E f \in DOMAIN loadedFonts_ : f \notin DOMAIN loadedFonts_'
EvictStep == ret'.evictions > 0

\* the entries that stay in the cache keep their page and rectangle
RemainingEntriesKept ==
    \A k \in (DOMAIN glyph_cache_map_) \cap (DOMAIN glyph_cache_map_') :
        /\ glyph_cache_map_'[k].atlasTexture = glyph_cache_map_[k].atlasTexture
        /\ glyph_cache_map_'[k].atlasRect = glyph_cache_map_[k].atlasRect

\* the packer is where packing the bitmap of the inserted glyph alone puts it
PackerMovedByPackingOnly ==
    LET key == ret'.key
        bitmap == SlotBitmap(loadedFonts_[key.fontId], key.glyphIndex)
    IN  \E allocOk \in BOOLEAN :
            PackerState(CacheState)' =
                PackerState(RenderNewGlyph(CacheState, key, bitmap, 0, allocOk).c)

\* C18: evicting a cache entry and unloading a font reclaim no atlas space:
\* the pages, the current page, the pen and the row height are as they
\* would be without the eviction or the unload, and the entries that
\* remain keep their page and rectangle
C18_NoAtlasSpaceReclaimed ==
    [][/\ UnloadStep => /\ PackerState(CacheState)' = PackerState(CacheState)
                        /\ RemainingEntriesKept
       /\ EvictStep => /\ PackerMovedByPackingOnly
                       /\ RemainingEntriesKept]_vars

\* a call has evicted an entry while a placed glyph of another key stays,
\* after a font was unloaded
C18_Witness ==
    /\ ret.evictions > 0
    /\ \E k \in PlacedKeys : k /= ret.key
    /\ \E i \in 1..Len(loadFontReturns) : loadFontReturns[i] \notin DOMAIN loadedFonts_

\* the entry a request left for a glyph without a place in the atlas:
\* sentinel RenderInfo and the advance of the glyph
SentinelWithMetrics(glyph, key) ==
    /\ glyph.atlasTexture = 0
    /\ glyph.atlasRect = NoRect
    /\ glyph.advanceX_at_cached_size =
           SlotAdvance(loadedFonts_[key.fontId], key.glyphIndex)

\* the same request made again on the cache r1 left: a hit that returns the
\* cached glyph and leaves the pages and the packer alone
RepeatIsHit(r1, r2) ==
    /\ r2.hit
    /\ r2.key = r1.key
    /\ r2.glyph = r1.c.map[r1.key]
    /\ r2.c.map = r1.c.map
    /\ PackerState(r2.c) = PackerState(r1.c)

\* C19: a get-or-create call that misses and whose bitmap gets no place in
\* an atlas (empty bitmap, bitmap larger than the page, page allocation
\* failed) inserts an entry with sentinel RenderInfo and the glyph's
\* metrics, and the same request made again is a hit that returns that
\* entry and packs nothing
C19_UnplacedGlyphIsCached ==
    /\ \A f \in FirstFontId..MaxFontId, cp \in {"a", "sp", "zh"}, allocOk \in BOOLEAN :
        LET r1 == getOrCacheGlyph(CacheState, f, cp, <<"none">>, allocOk)
        IN  (r1.miss /\ r1.glyph.atlasTexture = 0) =>
                /\ r1.key \in DOMAIN r1.c.map
                /\ SentinelWithMetrics(r1.c.map[r1.key], r1.key)
                /\ \A again \in BOOLEAN :
                       RepeatIsHit(r1, getOrCacheGlyph(r1.c, f, cp, <<"none">>, again))
    /\ \A f \in FirstFontId..MaxFontId, gid \in 0..MaxGlyphIndex, allocOk \in BOOLEAN :
        LET r1 == getCachedGlyphByGID(CacheState, f, gid, TRUE, allocOk)
        IN  (r1.miss /\ r1.glyph.atlasTexture = 0) =>
                /\ r1.key \in DOMAIN r1.c.map
                /\ SentinelWithMetrics(r1.c.map[r1.key], r1.key)
                /\ \A again \in BOOLEAN :
                       RepeatIsHit(r1, getCachedGlyphByGID(r1.c, f, gid, TRUE, again))

\* a call was a hit on the entry of a glyph that has a bitmap and no place
\* in the atlas
C19_Witness ==
    /\ ret.hit
    /\ ret.key \in DOMAIN glyph_cache_map_
    /\ glyph_cache_map_[ret.key].atlasTexture = 0
    /\ SlotBitmap(loadedFonts_[ret.key.fontId], ret.key.glyphIndex)[1] > 0

\* a SetGlyphAtlasOptions call that changes the page width or height
PageDimensionsChange ==
    \/ atlas_width_' /= atlas_width_
    \/ atlas_height_' /= atlas_height_

\* C20: a SetGlyphAtlasOptions call that changes the page width or height
\* returns with the cache map and the LRU list empty and no atlas page,
\* whatever the cache held
C20_DimensionChangeClearsCache ==
    [][PageDimensionsChange => /\ glyph_cache_map_' = <<>>
                               /\ lru_glyph_list_' = <<>>
                               /\ atlas_textures_' = <<>>]_vars

\* ------------------------------------------------------------------------
\* Paragraphs of several spans.  A Latin and a CJK font are loaded, a
\* paragraph of one or two spans (text in font 1 or 2, or an inline image)
\* is laid out, the cache is cleared or resized or glyph 1 of font 1 is
\* requested while no atlas page can be allocated, and the same paragraph
\* is laid out again while the atlas has at most MaxAtlasPages pages.
\* ------------------------------------------------------------------------
MaxSpans == 2           \* paragraphs of several spans have at most this many
MaxSpanTextLen == 2     \* a span of such a paragraph has at most this many characters

SpanTexts == UNION {[1..n -> {"a", "zh", "ar"}] : n \in 1..MaxSpanTextLen}
StyledSpans ==
    {[text |-> t, fontId |-> f, isImage |-> FALSE] :
        t \in SpanTexts, f \in FirstFontId..MaxFontId}
      \cup {[text |-> <<>>, fontId |-> FirstFontId, isImage |-> TRUE]}
SpanSeqs == UNION {[1..n -> StyledSpans] : n \in 1..MaxSpans}
SpanStyles == {[DefaultParagraphStyle EXCEPT !.wrapWidth = w] : w \in {0, 12}}

SpanNext ==
    \/ /\ textBlock = EmptyTextBlock
       /\ LoadFont(IF nextFontId_ = FirstFontId THEN "latin" ELSE "cjk")
    \/ /\ textBlock = EmptyTextBlock
       /\ \E spans \in SpanSeqs, pStyle \in SpanStyles :
              LayoutStyledText(spans, pStyle)
    \/ textBlock /= EmptyTextBlock /\ ClearGlyphCache
    \/ /\ textBlock /= EmptyTextBlock
       /\ glyph_cache_capacity_ = DefaultCacheCapacity
       /\ SetGlyphAtlasOptions(1, atlas_width_, atlas_height_, atlas_type_hint_)
    \/ /\ textBlock /= EmptyTextBlock
       /\ GetCachedGlyphByGID(FirstFontId, 1, TRUE, FALSE)
    \/ /\ textBlock /= EmptyTextBlock
       /\ Len(atlas_textures_) <= MaxAtlasPages
       /\ LayoutStyledText(textBlock.sourceSpansCopied, textBlock.paragraphStyleUsed)

SpanSpec == EngineInit /\ [][SpanNext]_vars

\* ------------------------------------------------------------------------
\* Properties of paragraphs of several spans (checked under SpanSpec)
\* ------------------------------------------------------------------------
\* the advance of an element: xAdvance of a glyph, penAdvanceX of an image
ElementAdvance(el) == IF IsImage(el) THEN el.penAdvanceX ELSE el.xAdvance

LineAdvanceSum(i) ==
    SumOver([k \in LineElements(i) |-> ElementAdvance(textBlock.elements[k])],
            LineElements(i))

\* C21: for every line of a laid-out block, lineWidth is the sum of the
\* advances of the line's elements (xAdvance of a glyph, penAdvanceX of an
\* inline image), the first-line indent not counted.
C21_LineWidthIsSumOfAdvances ==
    LaidOut => \A i \in 1..NumLines : textBlock.lines[i].lineWidth = LineAdvanceSum(i)

\* the same for the lines that hold no inline image
GlyphLineWidthIsSumOfAdvances ==
    LaidOut =>
        \A i \in 1..NumLines :
            (\A k \in LineElements(i) : ~IsImage(textBlock.elements[k])) =>
                textBlock.lines[i].lineWidth = LineAdvanceSum(i)

\* the character of the text whose UTF-8 form starts at byte b
CharStartingAt(text, b) == text[CharAtByte(text, b) + 1]

\* the source mapping of glyph el names the span that holds the byte at
\* which the glyph's cluster starts, and the cluster's place and length in it
ProvenanceExact(el, spans) ==
    LET s == el.sourceSpanIndex
        clusterByte == el.clusterByteInText
    IN  /\ s \in 0..(Len(spans) - 1)
        /\ SpanU8Start(spans, s) <= clusterByte
        /\ clusterByte < SpanU8Start(spans, s) + SpanU8Len(spans, s)
        /\ SpanU8Start(spans, s) + el.sourceCharByteOffsetInSpan = clusterByte
        /\ el.numSourceCharBytesInSpan = Utf8Bytes(CharStartingAt(FullText(spans), clusterByte))

\* C22: for every positioned glyph, sourceSpanIndex is the span whose byte
\* range in the text contains the start of the glyph's cluster, the start of
\* that span plus sourceCharByteOffsetInSpan is the byte at which the
\* cluster starts, and numSourceCharBytesInSpan is the UTF-8 length of the
\* cluster's codepoint, wherever the span boundaries fall.
C22_GlyphProvenance ==
    LaidOut =>
        \A k \in 1..Len(textBlock.elements) :
            ~IsImage(textBlock.elements[k]) =>
                ProvenanceExact(textBlock.elements[k], textBlock.sourceSpansCopied)

\* the same for the paragraphs of one span
SingleSpanGlyphProvenance ==
    (LaidOut /\ Len(textBlock.sourceSpansCopied) = 1) =>
        \A k \in 1..Len(textBlock.elements) :
            ~IsImage(textBlock.elements[k]) =>
                ProvenanceExact(textBlock.elements[k], textBlock.sourceSpansCopied)

\* the visual runs of line i are non-empty and cover the elements of the
\* line in order, without a gap or an overlap
RunsPartitionLine(i) ==
    LET runs == textBlock.lines[i].visualRuns
    IN  /\ runs /= <<>>
        /\ runs[1].firstElementIndexInLineElements = 0
        /\ \A j \in 1..Len(runs) : runs[j].numElementsInRun >= 1
        /\ \A j \in 1..(Len(runs) - 1) :
              runs[j + 1].firstElementIndexInLineElements
                = runs[j].firstElementIndexInLineElements + runs[j].numElementsInRun
        /\ runs[Len(runs)].firstElementIndexInLineElements
             + runs[Len(runs)].numElementsInRun = textBlock.lines[i].numElementsInLine

\* run j of line i is a run of images
RunOfImages(i, j) ==
    IsImage(textBlock.elements[textBlock.lines[i].firstElementIndexInBlockElements
              + textBlock.lines[i].visualRuns[j].firstElementIndexInLineElements + 1])

\* runs j and j + 1 of line i differ in direction, font or kind
AdjacentRunsDiffer(i, j) ==
    LET runs == textBlock.lines[i].visualRuns
    IN  \/ runs[j].direction /= runs[j + 1].direction
        \/ runs[j].runFont /= runs[j + 1].runFont
        \/ RunOfImages(i, j) /= RunOfImages(i, j + 1)

ElementWithout(el, names) ==
    IF IsImage(el) THEN el
    ELSE [el EXCEPT !.renderInfo = [n \in (DOMAIN el.renderInfo) \ names |-> el.renderInfo[n]]]

\* block tb, the fields names of the renderInfo of its glyphs left out
BlockWithout(tb, names) ==
    [tb EXCEPT !.elements = [k \in 1..Len(tb.elements) |-> ElementWithout(tb.elements[k], names)]]

C24_AvailabilityByFontAndChain ==
    \A f \in FirstFontId..MaxFontId, cp \in Codepoints \ {"nul"}, checkFallback \in BOOLEAN :
        IsCodepointAvailable(f, cp, checkFallback)
          <=> \/ FontCovers(f, cp)
              \/ /\ checkFallback
                 /\ \E i \in 1..Len(ChainOf(f)) : FontCovers(ChainOf(f)[i], cp)

\* ------------------------------------------------------------------------
\* Further properties of the atlas (checked under AtlasSpec)
\* ------------------------------------------------------------------------
RectsOverlap(r1, r2) ==
    /\ r1.x < r2.x + r2.width
    /\ r2.x < r1.x + r1.width
    /\ r1.y < r2.y + r2.height
    /\ r2.y < r1.y + r1.height

\* C26: no two rectangles the packer handed out for the same page since the
\* last clear of the cache overlap, also when a request was rejected as too
\* large or the allocation of a page failed in between (the rectangles are
\* those of the glyphs the cache holds: all were handed out since the clear)
C26_RectsOfAPageDisjoint ==
    \A k1 \in PlacedKeys, k2 \in PlacedKeys :
        (k1 /= k2 /\ glyph_cache_map_[k1].atlasTexture = glyph_cache_map_[k2].atlasTexture)
            => ~RectsOverlap(glyph_cache_map_[k1].atlasRect, glyph_cache_map_[k2].atlasRect)

\* the bitmap of glyph gid of font f is wider or taller than an atlas page
LargerThanPage(f, gid) ==
    \/ SlotBitmap(loadedFonts_[f], gid)[1] > atlas_width_
    \/ SlotBitmap(loadedFonts_[f], gid)[2] > atlas_height_

\* C29: a pack request for a glyph wider or taller than the atlas page
\* leaves the atlas as it was: no page is allocated, and the current page
\* index, the pen position and the row height are unchanged
C29_TooLargeLeavesAtlasUnchanged ==
    \A f \in DOMAIN loadedFonts_, gid \in 0..MaxGlyphIndex, allocOk \in BOOLEAN :
        LET r == getCachedGlyphByGID(CacheState, f, gid, TRUE, allocOk)
        IN  (r.miss /\ LargerThanPage(f, gid)) =>
                PackerState(r.c) = PackerState(CacheState)

\* ------------------------------------------------------------------------
\* Further properties of the cursor and hit-test functions (checked under
\* CursorSpec)
\* ------------------------------------------------------------------------
\* the cursor query was made for the byte at which the LTR glyph k starts,
\* preferring the leading edge
CursorAskedAtStartOf(k) ==
    /\ cursorInfo.called
    /\ cursorInfo.preferLeadingEdge
    /\ ~IsImage(textBlock.elements[k])
    /\ textBlock.elements[k].visualRunDirectionHint = "LTR"
    /\ textBlock.elements[k].numSourceCharBytesInSpan > 0
    /\ cursorInfo.byteOffsetArg = textBlock.elements[k].sourceCharByteOffsetInSpan

\* C28: for every element e of an LTR run, the cursor X reported for the
\* byte at which e starts (leading edge) is e.position.x, the pen X at which
\* layout placed e, for every alignment, wrap width and first-line indent
C28_CursorXIsElementX ==
    (LaidOut /\ IsFontValid(SpanFont)) =>
        \A k \in 1..Len(textBlock.elements) :
            CursorAskedAtStartOf(k) =>
                cursorInfo.visualPosition.x = textBlock.elements[k].position.x

\* the same for the lines that are neither indented nor shifted
UnshiftedCursorXIsElementX ==
    (/\ LaidOut /\ IsFontValid(SpanFont)
     /\ textBlock.paragraphStyleUsed.firstLineIndent = 0
     /\ textBlock.paragraphStyleUsed.alignment = "LEFT") =>
        \A k \in 1..Len(textBlock.elements) :
            CursorAskedAtStartOf(k) =>
                cursorInfo.visualPosition.x = textBlock.elements[k].position.x

\* x coordinates of the clicks made on every line: the two halves of the
\* elements of a line, left of the line and far right of it
LineHitXs == {-1, 1, 3, 5, 7, 9, 11, 13, 15, 17, 30}

\* the line (from 1) on which the cursor query reports the offset that the
\* hit test of point p returns, the edge preferred being prefer
CursorLineOfHit(p, prefer) ==
    getCursorInfoFromByteOffset(textBlock,
        getByteOffsetFromVisualPosition(textBlock, p).byteOffset, prefer).lineIndex + 1

\* C27: for a point whose y lies in the box of line i, the byte offset the
\* hit test returns is one that the cursor query reports on line i, for
\* every x: a hit never puts the cursor on another line than the one hit
C27_HitStaysOnLine ==
    (LaidOut /\ IsFontValid(SpanFont) /\ ~cursorInfo.called /\ ~hitResult.called) =>
        \A i \in 1..NumLines, x \in LineHitXs :
            \E prefer \in BOOLEAN :
                CursorLineOfHit([x |-> x, y |-> textBlock.lines[i].lineBoxY], prefer) = i

\* ------------------------------------------------------------------------
\* Properties of GetTextRangeBounds (checked under LayoutSpec)
\* ------------------------------------------------------------------------
\* the byte range of element k intersects [a, b)
ElementInRange(k, a, b) ==
    /\ ElGlobalByteStart(textBlock, textBlock.elements[k])
         + textBlock.elements[k].numSourceCharBytesInSpan > a
    /\ ElGlobalByteStart(textBlock, textBlock.elements[k]) < b

\* the horizontal extent of element k lies inside a rectangle of bounds
\* made for line i
CoveredBy(k, i, bounds) ==
    \E j \in 1..Len(bounds) :
        /\ bounds[j].line = i
        /\ bounds[j].x <= ActualVisualStartX(textBlock.elements[k])
        /\ ActualVisualStartX(textBlock.elements[k]) + ElVisualWidth(textBlock.elements[k])
             <= bounds[j].x + bounds[j].width

\* C30: GetTextRangeBounds(block, a, b) with a < b returns, for each line,
\* rectangles that together cover every element of the line whose byte
\* range intersects [a, b): the extent [left, left + width] of each such
\* element lies inside one rectangle of its line, also when its left edge
\* is at a negative x
C30_RangeBoundsCoverElements ==
    (LaidOut /\ textBlock.sourceSpansCopied /= <<>>) =>
        \A a \in 0..TextByteLen, b \in 0..TextByteLen :
            a < b =>
                \A i \in 1..NumLines :
                    \A k \in LineElements(i) :
                        ElementInRange(k, a, b) =>
                            CoveredBy(k, i, GetTextRangeBounds(textBlock, a, b))

\* the same for the elements of the lines on which no element of the range
\* has its left edge at a negative x
RangeBoundsCoverWithoutNegativeEdge ==
    (LaidOut /\ textBlock.sourceSpansCopied /= <<>>) =>
        \A a \in 0..TextByteLen, b \in 0..TextByteLen :
            a < b =>
                \A i \in 1..NumLines :
                    (\A h \in LineElements(i) :
                        ElementInRange(h, a, b) => ActualVisualStartX(textBlock.elements[h]) >= 0)
                      => \A k \in LineElements(i) :
                            ElementInRange(k, a, b) =>
                                CoveredBy(k, i, GetTextRangeBounds(textBlock, a, b))

====
